---------------------------- MODULE Spec2Model ----------------------------
(***************************************************************************)
(* Source-of-wealth verification workflow (source_of_wealth_agent).        *)
(*                                                                         *)
(* The shared record AgentState is the variable `state`; a node of the     *)
(* workflow graph built by create_workflow is one action: the node         *)
(* function, the merge of what it returns into the record, and the edge    *)
(* (fixed or conditional) that selects the node to run next (`pc`).        *)
(*                                                                         *)
(* Conventions                                                             *)
(*  - a dictionary key that may be missing is a record with a `present`    *)
(*    flag, or the string Absent for string-valued keys;                   *)
(*  - the four verification agents are the parameters of create_workflow:  *)
(*    their `run` is modelled by its interface, a result written under the *)
(*    agent's key (or an exception);                                       *)
(*  - every key a node returns is kept in the record (next_verification    *)
(*    and risk_assessment_action included);                                *)
(*  - pending_reviews and review_responses are kept as the set of their    *)
(*    items: the code tests them for emptiness and membership only.        *)
(***************************************************************************)
EXTENDS Integers, Sequences, FiniteSets, TLC

VARIABLES state, pc, get_approval, routed

vars == <<state, pc, get_approval, routed>>

(***************************************************************************)
(* Bounds of the model                                                     *)
(***************************************************************************)
MaxMentions == 2
MaxRiskFlags == 1

Absent == "absent"

(***************************************************************************)
(* Small helpers                                                           *)
(***************************************************************************)
SeqsUpTo(S, n) == UNION {[1..k -> S] : k \in 0..n}

RECURSIVE SeqSum(_)
SeqSum(q) == IF q = <<>> THEN 0 ELSE Head(q) + SeqSum(Tail(q))

Range(q) == {q[i] : i \in 1..Len(q)}

(***************************************************************************)
(* Verification results (core/state.py)                                    *)
(***************************************************************************)
\* A check result: `warnings` is result.get("warnings", []), the list the
\* summarizer reads from a verified result (<<>> when the key is missing)
NoResult == [present |-> FALSE, verified |-> FALSE, issues_found |-> FALSE, warnings |-> <<>>]

MkResult(v, i) == [present |-> TRUE, verified |-> v, issues_found |-> i, warnings |-> <<>>]

\* The results without a warnings key (no agent writes the key)
Results == {NoResult} \cup {MkResult(v, i) : v \in BOOLEAN, i \in BOOLEAN}

\* A verified result that carries warnings (a record given to the functions
\* that read it; no agent produces one)
WarningLists == {<< "ID expires within 30 days" >>}

WarnedResult(w) == [MkResult(TRUE, FALSE) EXCEPT !.warnings = w]

\* A web mention: its source, analysis.company ("" when there is none) and
\* its details text.
MentionSources == {"LinkedIn", "Bloomberg"}
MentionCompanies == {"", "Acme Corp"}
MentionDetails == {"Senior Analyst at Acme", "Investor and Shareholder"}

Mentions == [source : MentionSources, company : MentionCompanies,
             details : MentionDetails]

RiskFlagTexts == {"Negative financial news"}

NoWebResult == [present |-> FALSE, verified |-> FALSE,
                mentions |-> <<>>, risk_flags |-> <<>>]

MkWebResult(v, m, f) == [present |-> TRUE, verified |-> v,
                         mentions |-> m, risk_flags |-> f]

\* The web results a record can hold when it is given to the functions that
\* read one (an imported record)
WebResults ==
    {MkWebResult(TRUE, m, f) : m \in SeqsUpTo(Mentions, MaxMentions),
                               f \in SeqsUpTo(RiskFlagTexts, MaxRiskFlags)}
    \cup {MkWebResult(FALSE, <<>>, <<>>)}

\* The three mentions of the result WebReferencesAgent.run stores after its
\* searches; "{employer}" is part of the text (the literals are no f-strings)
StoredMentions ==
    << [source |-> "LinkedIn", company |-> "",
        details |-> "Profile for Hatim Nourbay, Senior Investment Manager at {employer}"],
       [source |-> "Bloomberg", company |-> "",
        details |-> "{employer} announces expansion plans, quotes from senior management"],
       [source |-> "Sentiment Analysis Summary", company |-> "",
        details |-> "Analysis of web mentions for Hatim Nourbay shows predominantly positive sentiment. Professional reputation appears strong, particularly in relation to role at {employer}."] >>

\* What WebReferencesAgent.run stores under web_references: the fixed result
\* when the searches return, {"verified": False, "error": ...} (no mentions,
\* no risk_flags) when every attempt raised
WebOutcomes ==
    {MkWebResult(TRUE, StoredMentions, <<>>), MkWebResult(FALSE, <<>>, <<>>)}

\* str.lower() on the strings of the model
Lower(s) ==
    CASE s = "LinkedIn" -> "linkedin"
      [] s = "Bloomberg" -> "bloomberg"
      [] s = "Sentiment Analysis Summary" -> "sentiment analysis summary"
      [] s = "Acme Corp" -> "acme corp"
      [] s = "Senior Analyst at Acme" -> "senior analyst at acme"
      [] s = "Investor and Shareholder" -> "investor and shareholder"
      [] s = "Profile for Hatim Nourbay, Senior Investment Manager at {employer}" ->
            "profile for hatim nourbay, senior investment manager at {employer}"
      [] s = "{employer} announces expansion plans, quotes from senior management" ->
            "{employer} announces expansion plans, quotes from senior management"
      [] s = "Analysis of web mentions for Hatim Nourbay shows predominantly positive sentiment. Professional reputation appears strong, particularly in relation to role at {employer}." ->
            "analysis of web mentions for hatim nourbay shows predominantly positive sentiment. professional reputation appears strong, particularly in relation to role at {employer}."
      [] OTHER -> s

financial_keywords == {"investor", "investment", "shareholder", "dividend",
                       "stocks", "bonds", "portfolio", "financial report"}

\* `keyword in details` (substring test) on the strings of the model
KeywordIn(keyword, details) ==
    \/ /\ details = "investor and shareholder"
       /\ keyword \in {"investor", "shareholder"}
    \/ /\ details = "profile for hatim nourbay, senior investment manager at {employer}"
       /\ keyword = "investment"

(***************************************************************************)
(* Human approvals: approvals[k] is "none" when human_approvals has no key *)
(* k, else the value of its `approved` field.                              *)
(***************************************************************************)
ApprovalKeys == {"id_verification", "payslip_verification_review",
                 "employment_corroboration", "funds_corroboration",
                 "data_readiness_override"}

ApprovalValues == {"none", "approved", "rejected"}

NoApprovals == [k \in ApprovalKeys |-> "none"]

\* The keys of a human_approvals dictionary in the order ApprovalOrder lists
\* them, and in the opposite order (a Python dict keeps its keys in the order
\* of their first insertion)
ApprovalOrder == << "id_verification", "payslip_verification_review",
                    "employment_corroboration", "funds_corroboration",
                    "data_readiness_override" >>

Reverse(q) == [i \in 1..Len(q) |-> q[Len(q) + 1 - i]]

KeysInOrder(h) == SelectSeq(ApprovalOrder, LAMBDA k : h[k] # "none")

KeyOrders(h) == {KeysInOrder(h), Reverse(KeysInOrder(h))}

\* The record s with its approval keys laid out in the order of ApprovalOrder
Keyed(s) ==
    [s EXCEPT !.human_approvals_keys = KeysInOrder(s.human_approvals)]

\* dict[key] = value on the key list: a new key goes last, an existing key
\* keeps its place
KeyInserted(keys, k) ==
    IF \E i \in 1..Len(keys) : keys[i] = k THEN keys ELSE Append(keys, k)

\* state.get("human_approvals", {}).get(k, {}).get("approved", False)
Approved(s, k) == s.human_approvals[k] = "approved"

(***************************************************************************)
(* Verification plan: the requirements dictionary is an association list   *)
(* in insertion order (a Python dict keeps the order of first insertion).  *)
(***************************************************************************)
VTypes == {"web_references", "payslip_verification", "financial_reports"}

Statuses == {"pending", "in_progress", "completed", "failed", "skipped"}

MkReq(k, r, st, p) ==
    [verification_type |-> k, required |-> r, status |-> st, priority |-> p]

HasReq(reqs, k) == \E i \in 1..Len(reqs) : reqs[i].verification_type = k

GetReq(reqs, k) ==
    reqs[CHOOSE i \in 1..Len(reqs) : reqs[i].verification_type = k]

\* Variant of PutReq: the entry is appended even when the key exists
PutReqAppend(reqs, k, e) == Append(reqs, e)

\* requirements[k] = e
PutReq(reqs, k, e) ==
    IF HasReq(reqs, k)
    THEN [i \in 1..Len(reqs) |->
            IF reqs[i].verification_type = k THEN e ELSE reqs[i]]
    ELSE Append(reqs, e)

ReqKeys(reqs) == {reqs[i].verification_type : i \in 1..Len(reqs)}

NoPlan == [present |-> FALSE,
           payslip_verification_required |-> FALSE,
           financial_reports_required |-> FALSE,
           verification_requirements |-> <<>>]

(***************************************************************************)
(* Summary and risk assessment records                                     *)
(***************************************************************************)
NoSummary == [present |-> FALSE, id_verified |-> "false",
              payslip_verified |-> "false",
              web_references_verified |-> "false",
              financial_reports_verified |-> "false",
              identity_details |-> [available |-> FALSE,
                                    human_verified |-> "none"],
              employment_details |-> [available |-> FALSE, reason |-> ""],
              web_presence |-> [available |-> FALSE, mentions_count |-> 0,
                                top_mentions |-> <<>>, risk_flags |-> <<>>],
              risk_indicators |-> <<>>]

NoRiskAssessment == [present |-> FALSE, risk_score |-> 0,
                     risk_level |-> "Low", risk_factors |-> <<>>]

(***************************************************************************)
(* create_initial_state                                                    *)
(***************************************************************************)
create_initial_state ==
    [id_verification |-> NoResult,
     payslip_verification |-> NoResult,
     web_references |-> NoWebResult,
     financial_reports |-> NoResult,
     employment_corroboration |-> FALSE,
     funds_corroboration |-> FALSE,
     human_approvals |-> NoApprovals,
     \* list(human_approvals): the keys in insertion order
     human_approvals_keys |-> <<>>,
     verification_plan |-> NoPlan,
     next_verification |-> Absent,
     next_agent |-> Absent,
     risk_assessment_action |-> Absent,
     pending_reviews |-> {},
     review_responses |-> {},
     verification_summary |-> NoSummary,
     risk_assessment |-> NoRiskAssessment,
     \* human_approvals["id_verification"]["issues_at_review"]: whether the
     \* recorded issue list is non-empty, Absent while there is no detail
     issues_at_review |-> Absent,
     \* the key verification_needs_human_review writes; FALSE while absent
     id_verification_critical_issues |-> FALSE]


(***************************************************************************)
(* Readings of the record shared by the planner and the routers            *)
(***************************************************************************)
\* state.get("id_verification", {}).get("verified", None)
id_verified(s) ==
    IF ~s.id_verification.present THEN "None"
    ELSE IF s.id_verification.verified THEN "True" ELSE "False"

\* state.get(verification_type) and its `verified` field
Verified(s, k) ==
    CASE k = "web_references" ->
            s.web_references.present /\ s.web_references.verified
      [] k = "payslip_verification" ->
            s.payslip_verification.present /\ s.payslip_verification.verified
      [] k = "financial_reports" ->
            s.financial_reports.present /\ s.financial_reports.verified
      [] OTHER -> FALSE

\* The identity result is there and is verified or approved by the reviewer
IdResolved(s) ==
    /\ s.id_verification.present
    /\ s.id_verification.verified \/ Approved(s, "id_verification")

(***************************************************************************)
(* determine_next_action (agents/risk_assessment_agent.py)                 *)
(***************************************************************************)
determine_next_action(s) ==
    IF id_verified(s) = "None" THEN "id_verification"
    ELSE IF id_verified(s) = "False" /\ ~Approved(s, "id_verification")
    THEN "human_advisory_node"
    ELSE IF ~s.verification_plan.present THEN "planning"
    ELSE IF /\ s.web_references.present
            /\ ~HasReq(s.verification_plan.verification_requirements,
                       "payslip_verification")
    THEN "analyze_web_references"
    ELSE IF s.verification_summary.present THEN "summary"
    ELSE IF s.next_verification # Absent THEN s.next_verification
    ELSE "check_verification_completion"

(***************************************************************************)
(* create_verification_plan                                                *)
(***************************************************************************)
InitialRequirements ==
    << MkReq("web_references", TRUE, "pending", 2) >>

\* The plan record create_verification_plan writes
InitialPlan ==
    [present |-> TRUE,
     payslip_verification_required |-> FALSE,
     financial_reports_required |-> FALSE,
     verification_requirements |-> InitialRequirements]

\* Variant of create_verification_plan: the plan is written whatever the
\* identity result says
create_verification_plan_unconditional(s) ==
    [s EXCEPT
        !.verification_plan =
            [present |-> TRUE,
             payslip_verification_required |-> FALSE,
             financial_reports_required |-> FALSE,
             verification_requirements |-> InitialRequirements],
        !.next_verification = "web_references_node"]

\* Variant of create_verification_plan: the payslip requirement is planned
\* before the web check has run
create_verification_plan_eager(s) ==
    IF id_verified(s) = "None" THEN s
    ELSE IF id_verified(s) = "True" \/ Approved(s, "id_verification")
    THEN [s EXCEPT
            !.verification_plan =
                [present |-> TRUE,
                 payslip_verification_required |-> TRUE,
                 financial_reports_required |-> FALSE,
                 verification_requirements |->
                     << MkReq("web_references", TRUE, "pending", 2),
                        MkReq("payslip_verification", TRUE, "pending", 3) >>],
            !.next_verification = "web_references_node"]
    ELSE s

create_verification_plan(s) ==
    IF id_verified(s) = "None" THEN s
    ELSE IF id_verified(s) = "True" \/ Approved(s, "id_verification")
    THEN [s EXCEPT
            !.verification_plan =
                [present |-> TRUE,
                 payslip_verification_required |-> FALSE,
                 financial_reports_required |-> FALSE,
                 verification_requirements |-> InitialRequirements],
            !.next_verification = "web_references_node"]
    ELSE s

(***************************************************************************)
(* analyze_web_references                                                  *)
(***************************************************************************)
\* mention.get("source", "").lower() == "linkedin", or analysis.company set
employment_mentioned(mentions) ==
    \E i \in 1..Len(mentions) :
        \/ Lower(mentions[i].source) = "linkedin"
        \/ mentions[i].company # ""

financial_info_mentioned(mentions) ==
    \E i \in 1..Len(mentions) :
        \E keyword \in financial_keywords :
            KeywordIn(keyword, Lower(mentions[i].details))

PayslipRequirement == MkReq("payslip_verification", TRUE, "pending", 3)

\* Variant of FinancialRequirement: the entry is always mandatory
FinancialRequirementMandatory(employment) ==
    MkReq("financial_reports", TRUE, "pending", 3)

FinancialRequirement(employment) ==
    MkReq("financial_reports", ~employment, "pending",
          IF ~employment THEN 3 ELSE 4)

\* The requirements map after the revision
revised_requirements(reqs, employment, financial) ==
    LET payslip_required == employment
        financial_reports_required == financial \/ ~employment
        r1 == IF payslip_required
              THEN PutReq(reqs, "payslip_verification", PayslipRequirement)
              ELSE reqs
    IN  IF financial_reports_required
        THEN PutReq(r1, "financial_reports", FinancialRequirement(employment))
        ELSE r1

\* verification_plan["plan_justification"] += ... fails on a missing plan
analyze_web_references_raises(s) ==
    s.web_references.present /\ ~s.verification_plan.present

analyze_web_references(s) ==
    IF ~s.web_references.present THEN s
    ELSE
    LET mentions == s.web_references.mentions
        employment == employment_mentioned(mentions)
        financial == financial_info_mentioned(mentions)
        payslip_required == employment
        financial_reports_required == financial \/ ~employment
        plan == s.verification_plan
        new_plan ==
            [present |-> TRUE,
             payslip_verification_required |->
                 IF payslip_required THEN TRUE
                 ELSE plan.payslip_verification_required,
             financial_reports_required |->
                 IF financial_reports_required THEN TRUE
                 ELSE plan.financial_reports_required,
             verification_requirements |->
                 revised_requirements(plan.verification_requirements,
                                      employment, financial)]
        planned == [s EXCEPT !.verification_plan = new_plan]
    IN  IF id_verified(s) = "None"
        THEN [planned EXCEPT !.next_verification = "id_verification"]
        ELSE IF id_verified(s) = "False" /\ ~Approved(s, "id_verification")
        THEN [planned EXCEPT !.next_agent = "human_advisory_node"]
        ELSE IF payslip_required
        THEN [planned EXCEPT !.next_verification = "payslip_verification"]
        ELSE IF financial_reports_required
        THEN [planned EXCEPT !.next_verification = "financial_reports"]
        ELSE [planned EXCEPT !.next_verification = "summarization"]

(***************************************************************************)
(* check_verification_completion                                           *)
(***************************************************************************)
PriorityCeiling == 999

\* The status pass over the required entries
checked_requirements(s, reqs) ==
    [i \in 1..Len(reqs) |->
        IF reqs[i].required
        THEN [reqs[i] EXCEPT !.status =
                 IF Verified(s, reqs[i].verification_type)
                 THEN "completed" ELSE "pending"]
        ELSE reqs[i]]

\* Variant of scan_pending: the first required pending entry wins
scan_pending_first(reqs, best) ==
    IF \E i \in 1..Len(reqs) : reqs[i].required /\ reqs[i].status = "pending"
    THEN LET i == CHOOSE i \in 1..Len(reqs) :
                      /\ reqs[i].required /\ reqs[i].status = "pending"
                      /\ \A j \in 1..(i - 1) :
                            ~(reqs[j].required /\ reqs[j].status = "pending")
         IN  <<reqs[i].priority, reqs[i].verification_type>>
    ELSE best

\* The scan for the highest-priority missing verification: `best` is the
\* pair <<highest_priority, next_verification>> carried through the loop.
RECURSIVE scan_pending(_, _)
scan_pending(reqs, best) ==
    IF reqs = <<>> THEN best
    ELSE LET r == Head(reqs)
         IN  IF r.required /\ r.status = "pending" /\ r.priority < best[1]
             THEN scan_pending(Tail(reqs), <<r.priority, r.verification_type>>)
             ELSE scan_pending(Tail(reqs), best)

next_required_step(s, reqs) ==
    LET checked == checked_requirements(s, reqs)
        all_required_completed ==
            \A i \in 1..Len(checked) :
                checked[i].required => checked[i].status = "completed"
        found == scan_pending(checked, <<PriorityCeiling, Absent>>)
    IN  IF all_required_completed THEN "summarization"
        ELSE IF found[2] # Absent THEN found[2]
        ELSE "summarization"

check_verification_completion(s) ==
    IF id_verified(s) = "None" THEN s
    ELSE IF id_verified(s) = "False" /\ ~Approved(s, "id_verification")
    THEN s
    ELSE
    LET reqs == s.verification_plan.verification_requirements
    IN  [s EXCEPT
            !.verification_plan =
                [@ EXCEPT !.present = TRUE,
                          !.verification_requirements =
                              checked_requirements(s, reqs)],
            !.next_verification = next_required_step(s, reqs)]


(***************************************************************************)
(* summarization_agent (agents/summarization_agent.py)                     *)
(***************************************************************************)
Bool(b) == IF b THEN "true" ELSE "false"

\* Truth value Python gives a verification_status entry: the string
\* "Not Required" counts as true.
Truthy(x) == x # "false"

\* _check_verification_status(state, key, "verified")
_check_verification_status(s, key) ==
    CASE key = "id_verification" ->
            s.id_verification.present /\ s.id_verification.verified
      [] OTHER -> Verified(s, key)

\* if not verified: the fixed indicator; elif the result has warnings: the
\* warnings; then the web result's risk flags
_extract_risk_indicators(s) ==
    (IF ~_check_verification_status(s, "id_verification")
     THEN << "ID verification failed or incomplete" >>
     ELSE s.id_verification.warnings)
    \o (IF ~_check_verification_status(s, "payslip_verification")
        THEN << "Payslip verification failed or incomplete" >>
        ELSE s.payslip_verification.warnings)
    \o (IF s.web_references.present THEN s.web_references.risk_flags
        ELSE <<>>)

\* The number of mentions the summary keeps: processed_mentions[:3]
TopMentions == 3

\* {"available": True, ..., "human_verified": human_approvals.get(
\* "id_verification", False)}; {"available": False} without the result
_extract_identity_details(s) ==
    IF ~s.id_verification.present
    THEN [available |-> FALSE, human_verified |-> "none"]
    ELSE [available |-> TRUE,
          human_verified |-> s.human_approvals["id_verification"]]

\* employment_details: the payslip extract when the plan requires the
\* payslip, otherwise the fixed "not required" record
_extract_employment_details(s) ==
    [available |-> s.payslip_verification.present, reason |-> ""]

employment_details_of(s) ==
    IF s.verification_plan.payslip_verification_required
    THEN _extract_employment_details(s)
    ELSE [available |-> FALSE,
          reason |-> "Not required based on verification plan"]

\* One entry of processed_mentions (the url, summary and sentiment of a
\* mention are not part of the model's mentions)
processed_mention(mention) == [source |-> mention.source]

\* Variant of _extract_web_presence: every processed mention is kept
_extract_web_presence_untruncated(s) ==
    IF ~s.web_references.present
    THEN [available |-> FALSE, mentions_count |-> 0,
          top_mentions |-> <<>>, risk_flags |-> <<>>]
    ELSE LET mentions == s.web_references.mentions
             processed_mentions ==
                 [i \in 1..Len(mentions) |-> processed_mention(mentions[i])]
         IN  [available |-> TRUE,
              mentions_count |-> Len(mentions),
              top_mentions |-> processed_mentions,
              risk_flags |-> s.web_references.risk_flags]

_extract_web_presence(s) ==
    IF ~s.web_references.present
    THEN [available |-> FALSE, mentions_count |-> 0,
          top_mentions |-> <<>>, risk_flags |-> <<>>]
    ELSE LET mentions == s.web_references.mentions
             processed_mentions ==
                 [i \in 1..Len(mentions) |-> processed_mention(mentions[i])]
         IN  [available |-> TRUE,
              mentions_count |-> Len(mentions),
              top_mentions |->
                  IF Len(processed_mentions) <= TopMentions
                  THEN processed_mentions
                  ELSE SubSeq(processed_mentions, 1, TopMentions),
              risk_flags |-> s.web_references.risk_flags]

summarization_agent(s) ==
    LET plan == s.verification_plan
        summary ==
            [present |-> TRUE,
             id_verified |->
                 Bool(_check_verification_status(s, "id_verification")),
             payslip_verified |->
                 IF plan.payslip_verification_required
                 THEN Bool(_check_verification_status(s, "payslip_verification"))
                 ELSE "Not Required",
             web_references_verified |->
                 Bool(_check_verification_status(s, "web_references")),
             financial_reports_verified |->
                 IF plan.financial_reports_required
                 THEN Bool(_check_verification_status(s, "financial_reports"))
                 ELSE "Not Required",
             identity_details |-> _extract_identity_details(s),
             employment_details |-> employment_details_of(s),
             web_presence |-> _extract_web_presence(s),
             risk_indicators |-> _extract_risk_indicators(s)]
    IN  [s EXCEPT !.verification_summary = summary,
                  !.risk_assessment_action = "perform_assessment"]

(***************************************************************************)
(* perform_risk_assessment (agents/risk_assessment_agent.py)               *)
(***************************************************************************)
IdPenalty == 30
PayslipPenalty == 25
WebPenalty == 15
FinancialPenalty == 20
IndicatorPenalty == 10
RejectionPenalty == 15

MediumLowCeiling == 30
MediumCeiling == 50
MediumHighCeiling == 70

\* Variant of Factor: every rule scores twice its points
FactorDoubled(cond, text, points) ==
    IF cond THEN << <<text, 2 * points>> >> ELSE <<>>

\* A scored factor list is a sequence of <<factor, points>> pairs.
Factor(cond, text, points) == IF cond THEN << <<text, points>> >> ELSE <<>>

FactorTexts(fs) == [i \in 1..Len(fs) |-> fs[i][1]]
FactorPoints(fs) == [i \in 1..Len(fs) |-> fs[i][2]]

\* for indicator in risk_indicators: if indicator not in risk_factors: ...
RECURSIVE add_indicators(_, _)
add_indicators(fs, indicators) ==
    IF indicators = <<>> THEN fs
    ELSE IF Head(indicators) \in Range(FactorTexts(fs))
         THEN add_indicators(fs, Tail(indicators))
         ELSE add_indicators(Append(fs, <<Head(indicators), IndicatorPenalty>>),
                             Tail(indicators))

web_flag_factor(flag) ==
    CASE flag = "Negative financial news" ->
            "Web reference risk: Negative financial news"
      [] OTHER -> flag

rejection_factor(k) ==
    CASE k = "id_verification" ->
            "Human reviewer rejected id_verification check"
      [] k = "payslip_verification_review" ->
            "Human reviewer rejected payslip_verification_review check"
      [] k = "employment_corroboration" ->
            "Human reviewer rejected employment_corroboration check"
      [] k = "funds_corroboration" ->
            "Human reviewer rejected funds_corroboration check"
      [] k = "data_readiness_override" ->
            "Human reviewer rejected data_readiness_override check"
      [] OTHER -> k

\* Variant of rejection_factors: an approving entry takes the penalty off
\* the score
rejection_factors_crediting(s, keys) ==
    [i \in 1..Len(keys) |->
        IF s.human_approvals[keys[i]] = "rejected"
        THEN <<rejection_factor(keys[i]), RejectionPenalty>>
        ELSE <<rejection_factor(keys[i]), 0 - RejectionPenalty>>]

\* Variant of rejection_factors: only one rejection is scored
rejection_factors_once(s, keys) ==
    IF \E i \in 1..Len(keys) : s.human_approvals[keys[i]] = "rejected"
    THEN LET i == CHOOSE i \in 1..Len(keys) :
                      /\ s.human_approvals[keys[i]] = "rejected"
                      /\ \A j \in 1..(i - 1) :
                            s.human_approvals[keys[j]] # "rejected"
         IN  << <<rejection_factor(keys[i]), RejectionPenalty>> >>
    ELSE <<>>

RECURSIVE rejection_factors(_, _)
rejection_factors(s, keys) ==
    IF keys = <<>> THEN <<>>
    ELSE Factor(s.human_approvals[Head(keys)] = "rejected",
                rejection_factor(Head(keys)), RejectionPenalty)
         \o rejection_factors(s, Tail(keys))

summary_factors(s) ==
    LET st == s.verification_summary
        plan == s.verification_plan
        base ==
            Factor(~Truthy(st.id_verified),
                   "ID verification failed or missing", IdPenalty)
            \o Factor(plan.payslip_verification_required
                      /\ ~Truthy(st.payslip_verified),
                      "Required payslip verification failed or missing",
                      PayslipPenalty)
            \o Factor(~Truthy(st.web_references_verified),
                      "Web references check failed or missing", WebPenalty)
            \o Factor(plan.financial_reports_required
                      /\ ~Truthy(st.financial_reports_verified),
                      "Required financial reports verification failed or missing",
                      FinancialPenalty)
    IN  add_indicators(base, st.risk_indicators)

direct_factors(s) ==
    LET plan == s.verification_plan
        web == s.web_references
    IN  Factor(~(s.id_verification.present /\ s.id_verification.verified),
               "ID verification failed or missing", IdPenalty)
        \o Factor(plan.payslip_verification_required
                  /\ ~Verified(s, "payslip_verification"),
                  "Required payslip verification failed or missing",
                  PayslipPenalty)
        \o (IF ~Verified(s, "web_references")
            THEN << <<"Web references check failed or missing", WebPenalty>> >>
            ELSE [i \in 1..Len(web.risk_flags) |->
                    <<web_flag_factor(web.risk_flags[i]), IndicatorPenalty>>])
        \o Factor(plan.financial_reports_required
                  /\ ~Verified(s, "financial_reports"),
                  "Required financial reports verification failed or missing",
                  FinancialPenalty)

\* Variant of risk_level_of: the scale has no band for a score of zero
risk_level_of_without_low(risk_score) ==
    IF risk_score < MediumLowCeiling THEN "Medium-Low"
    ELSE IF risk_score < MediumCeiling THEN "Medium"
    ELSE IF risk_score < MediumHighCeiling THEN "Medium-High"
    ELSE "High"

\* Variant of risk_level_of: each band includes its upper threshold
risk_level_of_inclusive(risk_score) ==
    IF risk_score = 0 THEN "Low"
    ELSE IF risk_score <= MediumLowCeiling THEN "Medium-Low"
    ELSE IF risk_score <= MediumCeiling THEN "Medium"
    ELSE IF risk_score <= MediumHighCeiling THEN "Medium-High"
    ELSE "High"

risk_level_of(risk_score) ==
    IF risk_score = 0 THEN "Low"
    ELSE IF risk_score < MediumLowCeiling THEN "Medium-Low"
    ELSE IF risk_score < MediumCeiling THEN "Medium"
    ELSE IF risk_score < MediumHighCeiling THEN "Medium-High"
    ELSE "High"

perform_risk_assessment(s) ==
    LET fs == (IF s.verification_summary.present
               THEN summary_factors(s) ELSE direct_factors(s))
              \o rejection_factors(s, s.human_approvals_keys)
        risk_score == SeqSum(FactorPoints(fs))
    IN  [s EXCEPT !.risk_assessment =
            [present |-> TRUE,
             risk_score |-> risk_score,
             risk_level |-> risk_level_of(risk_score),
             risk_factors |-> FactorTexts(fs)]]

(***************************************************************************)
(* risk_assessment_agent: planner and final assessor                       *)
(***************************************************************************)
risk_assessment_agent(s) ==
    IF s.risk_assessment_action = Absent
    THEN LET next_action == determine_next_action(s)
         IN  CASE next_action = "planning" -> create_verification_plan(s)
               [] next_action = "analyze_web_references" ->
                      analyze_web_references(s)
               [] next_action = "check_verification_completion" ->
                      check_verification_completion(s)
               [] next_action = "summary" -> perform_risk_assessment(s)
               [] OTHER -> s
    ELSE IF s.risk_assessment_action = "perform_assessment"
    THEN perform_risk_assessment(s)
    ELSE s


(***************************************************************************)
(* Routing functions (workflow/orchestration.py)                           *)
(***************************************************************************)
\* Variant of route_after_risk_assessment: next_agent is honoured before the
\* identity checks
route_next_agent_first(s) ==
    IF s.review_responses # {} THEN "human_advisory_node"
    ELSE IF s.next_agent # Absent THEN s.next_agent
    ELSE IF id_verified(s) = "None" /\ s.next_verification # "id_verification"
    THEN "id_verification_node"
    ELSE "human_advisory_node"

route_after_risk_assessment(s) ==
    IF s.review_responses # {} THEN "human_advisory_node"
    ELSE IF id_verified(s) = "None" /\ s.next_verification # "id_verification"
    THEN "id_verification_node"
    ELSE IF id_verified(s) = "False" /\ ~Approved(s, "id_verification")
    THEN "human_advisory_node"
    ELSE IF id_verified(s) = "True" \/ Approved(s, "id_verification")
    THEN IF s.next_agent # Absent THEN s.next_agent
         ELSE CASE s.next_verification = "id_verification" ->
                      "id_verification_node"
                [] s.next_verification = "payslip_verification" ->
                      "payslip_verification_node"
                [] s.next_verification = "web_references_node" ->
                      "web_references_node"
                [] s.next_verification = "financial_reports" ->
                      "financial_reports_node"
                [] s.next_verification = "summarization" ->
                      IF /\ s.pending_reviews # {}
                         /\ ~Approved(s, "data_readiness_override")
                      THEN "human_advisory_node"
                      ELSE "summarization_node"
                [] OTHER -> "human_advisory_node"
    ELSE "human_advisory_node"

verification_needs_human_review(s) ==
    IF s.pending_reviews # {} THEN "human_advisory_node"
    ELSE IF s.id_verification.present /\ s.id_verification.issues_found
    THEN "human_advisory_node"
    ELSE IF \/ (s.id_verification.present /\ s.id_verification.verified)
            \/ Approved(s, "id_verification")
    THEN IF \/ (s.payslip_verification.present
                /\ s.payslip_verification.issues_found)
            \/ (s.web_references.present
                /\ s.web_references.risk_flags # <<>>)
            \/ (s.financial_reports.present
                /\ s.financial_reports.issues_found)
         THEN "human_advisory_node"
         ELSE "risk_assessment_node"
    ELSE "risk_assessment_node"

\* Variant of route_after_summarization: the edge takes the other target of
\* its path map
route_after_summarization_to_report(s) == "report_generation_node"

route_after_summarization(s) == "risk_assessment_node"

\* The record the caller holds after verification_needs_human_review(state)
\* returned: state["id_verification_critical_issues"] = True on the identity
\* issues branch
verification_needs_human_review_effect(s) ==
    IF s.pending_reviews # {} THEN s
    ELSE IF s.id_verification.present /\ s.id_verification.issues_found
    THEN [s EXCEPT !.id_verification_critical_issues = TRUE]
    ELSE s

\* The record the caller holds after route_after_summarization(state)
\* returned: state["risk_assessment_action"] = "perform_assessment"
route_after_summarization_effect(s) ==
    [s EXCEPT !.risk_assessment_action = "perform_assessment"]

\* The targets the conditional edge after risk_assessment_node can resolve
RiskAssessmentTargets ==
    {"report_generation_node", "id_verification_node",
     "payslip_verification_node", "web_references_node",
     "financial_reports_node", "summarization_node", "human_advisory_node"}

\* Variant of after_risk_assessment: the path map sends the identity target
\* to the web check
after_risk_assessment_swapped(s) ==
    LET target == IF s.risk_assessment.present THEN "report_generation_node"
                  ELSE route_after_risk_assessment(s)
    IN  IF target = "id_verification_node" THEN "web_references_node"
        ELSE IF target \in RiskAssessmentTargets THEN target ELSE "raised"

\* Variant of after_risk_assessment: the edge does not look at the recorded
\* risk assessment
after_risk_assessment_rerouted(s) ==
    LET target == route_after_risk_assessment(s)
    IN  IF target \in RiskAssessmentTargets THEN target ELSE "raised"

\* lambda state: "report_generation_node" if "risk_assessment" in state
\*               else route_after_risk_assessment(state)
after_risk_assessment(s) ==
    LET target == IF s.risk_assessment.present THEN "report_generation_node"
                  ELSE route_after_risk_assessment(s)
    IN  IF target \in RiskAssessmentTargets THEN target ELSE "raised"

(***************************************************************************)
(* human_advisory_agent (agents/human_advisory_agent.py)                   *)
(***************************************************************************)
ReviewItem(k, has_issues) == [verification_type |-> k, issues |-> has_issues]

\* The reviewer's answers to the input() prompt, stripped and lower-cased
Answers == {"yes", "no", "y"}

\* The identity result needs the blocking review
needs_blocking_review(s) ==
    /\ s.id_verification.present
    /\ ~s.id_verification.verified
    /\ ~Approved(s, "id_verification")

\* Variant of approve_identity: the approval is recorded with an empty issue
\* list
approve_identity_without_issues(s) ==
    [s EXCEPT !.human_approvals["id_verification"] = "approved",
              !.human_approvals_keys = KeyInserted(@, "id_verification"),
              !.issues_at_review = FALSE]

\* HumanApprovalDetail(approved=True, issues_at_review=issues, ...) with
\* issues = id_verification_data.get("issues_found", []), then
\* Command(goto="risk_assessment_node", update=new_state) after "yes"
approve_identity(s) ==
    [s EXCEPT !.human_approvals["id_verification"] = "approved",
              !.human_approvals_keys = KeyInserted(@, "id_verification"),
              !.issues_at_review = s.id_verification.issues_found]

\* Variant of queued_reviews: the payslip review is requested for every
\* payslip result that has no approval yet
queued_reviews_unguarded(s) ==
    LET payslip ==
            IF /\ s.payslip_verification.present
               /\ ~Approved(s, "payslip_verification_review")
            THEN {ReviewItem("payslip_verification_review",
                             s.payslip_verification.issues_found)}
            ELSE {}
        employment ==
            IF /\ s.employment_corroboration
               /\ ~Approved(s, "employment_corroboration")
            THEN {ReviewItem("employment_corroboration", TRUE)} ELSE {}
        funds ==
            IF s.funds_corroboration /\ ~Approved(s, "funds_corroboration")
            THEN {ReviewItem("funds_corroboration", TRUE)} ELSE {}
        missing_verifications ==
            \/ ~(s.id_verification.present /\ s.id_verification.verified)
            \/ ~Verified(s, "payslip_verification")
            \/ ~s.web_references.present
        readiness ==
            IF missing_verifications /\ ~Approved(s, "data_readiness_override")
            THEN {ReviewItem("data_readiness_override", missing_verifications)}
            ELSE {}
    IN  payslip \cup employment \cup funds \cup readiness

\* The reviews the advisory step queues without waiting for an answer; the
\* second field of an item says whether the issues list passed to
\* request_human_review is non-empty (the corroboration reviews pass a list
\* that starts with one fixed issue)
queued_reviews(s) ==
    LET payslip ==
            IF /\ s.payslip_verification.present
               /\ ~Approved(s, "payslip_verification_review")
               /\ s.payslip_verification.issues_found
            THEN {ReviewItem("payslip_verification_review",
                             s.payslip_verification.issues_found)}
            ELSE {}
        employment ==
            IF /\ s.employment_corroboration
               /\ ~Approved(s, "employment_corroboration")
            THEN {ReviewItem("employment_corroboration", TRUE)} ELSE {}
        funds ==
            IF s.funds_corroboration /\ ~Approved(s, "funds_corroboration")
            THEN {ReviewItem("funds_corroboration", TRUE)} ELSE {}
        missing_verifications ==
            \/ ~(s.id_verification.present /\ s.id_verification.verified)
            \/ ~Verified(s, "payslip_verification")
            \/ ~s.web_references.present
        readiness ==
            IF missing_verifications /\ ~Approved(s, "data_readiness_override")
            THEN {ReviewItem("data_readiness_override", missing_verifications)}
            ELSE {}
    IN  payslip \cup employment \cup funds \cup readiness

human_advisory_agent(s) ==
    [s EXCEPT !.pending_reviews = @ \cup queued_reviews(s)]

(***************************************************************************)
(* The workflow graph (create_workflow): one action per node               *)
(***************************************************************************)
AgentNodes == {"id_verification_node", "payslip_verification_node",
               "web_references_node", "financial_reports_node"}

RiskAssessmentNode ==
    /\ pc = "risk_assessment_node"
    /\ state' = risk_assessment_agent(state)
    /\ pc' = after_risk_assessment(state')
    /\ UNCHANGED <<get_approval, routed>>

\* id_agent.run: after writing the result into the record it was given, run
\* calls log_action(state, self.name, ...) with four positional arguments
\* (log_action takes three) and raises TypeError on every input, before
\* get_human_approval and before it returns; nothing is merged into the
\* graph's record and the exception ends the run
IdVerificationNode ==
    /\ pc = "id_verification_node"
    /\ pc' = "raised"
    /\ UNCHANGED <<state, get_approval, routed>>

\* web_agent.run, then verification_needs_human_review
WebReferencesNode ==
    /\ pc = "web_references_node"
    /\ \E w \in WebOutcomes :
          state' = [state EXCEPT
                      !.web_references = w,
                      !.next_verification =
                          IF w.verified THEN "risk_assessment" ELSE @]
    /\ pc' = verification_needs_human_review(state')
    /\ UNCHANGED <<get_approval, routed>>

\* payslip_agent.run, then verification_needs_human_review.  verify_payslip
\* is called outside any try: a model reply with a null pay_period (line 228)
\* or a reply that is not a JSON object (lines 244-250) raises AttributeError
\* before anything is written to the record, and the exception ends the run
PayslipVerificationNode ==
    /\ pc = "payslip_verification_node"
    /\ \/ /\ \E issues \in BOOLEAN :
                state' = [state EXCEPT
                            !.payslip_verification = MkResult(~issues, issues),
                            !.pending_reviews =
                                IF issues
                                THEN @ \cup
                                     {ReviewItem("payslip_verification_review",
                                                 issues)}
                                ELSE @]
          /\ pc' = verification_needs_human_review(state')
       \/ /\ state' = state
          /\ pc' = "raised"
    /\ UNCHANGED <<get_approval, routed>>

\* financial_agent.run: state.financial_reports = financial_data is an
\* attribute assignment on the dict the node is given and raises
\* AttributeError on every input; the exception ends the run
FinancialReportsNode ==
    /\ pc = "financial_reports_node"
    /\ pc' = "raised"
    /\ UNCHANGED <<state, get_approval, routed>>

\* Variant of BlockingReview: a rejection goes back to the planner
BlockingReviewRetry ==
    /\ pc = "human_advisory_node"
    /\ needs_blocking_review(state)
    /\ \E answer \in Answers :
          /\ get_approval' = answer
          /\ state' = IF answer = "yes" THEN approve_identity(state) ELSE state
          /\ pc' = "risk_assessment_node"
    /\ UNCHANGED routed

\* The blocking identity review: input(), then Command(goto=...)
BlockingReview ==
    /\ pc = "human_advisory_node"
    /\ needs_blocking_review(state)
    /\ \E answer \in Answers :
          /\ get_approval' = answer
          /\ IF answer = "yes"
             THEN /\ state' = approve_identity(state)
                  /\ pc' = "risk_assessment_node"
             ELSE /\ state' = state
                  /\ pc' = "end"
    /\ UNCHANGED routed

\* The non-blocking part: the node returns its state and has no edge out
AdvisoryQueue ==
    /\ pc = "human_advisory_node"
    /\ ~needs_blocking_review(state)
    /\ state' = human_advisory_agent(state)
    /\ pc' = "__end__"
    /\ UNCHANGED <<get_approval, routed>>

\* summarization_agent, then route_after_summarization
SummarizationNode ==
    /\ pc = "summarization_node"
    /\ state' = summarization_agent(state)
    /\ pc' = route_after_summarization(state')
    /\ UNCHANGED <<get_approval, routed>>

\* report_generation_agent, then the edge to END
ReportGenerationNode ==
    /\ pc = "report_generation_node"
    /\ pc' = "__end__"
    /\ UNCHANGED <<state, get_approval, routed>>

Next ==
    \/ RiskAssessmentNode
    \/ IdVerificationNode
    \/ WebReferencesNode
    \/ PayslipVerificationNode
    \/ FinancialReportsNode
    \/ BlockingReview
    \/ AdvisoryQueue
    \/ SummarizationNode
    \/ ReportGenerationNode



(***************************************************************************)
(* The router as a function of an arbitrary record (run_workflow accepts   *)
(* an imported initial_state, so any record can reach the router).         *)
(***************************************************************************)
NextVerificationValues ==
    {Absent, "id_verification", "payslip_verification", "web_references_node",
     "web_references", "financial_reports", "summarization", "risk_assessment"}

NextAgentValues == {Absent, "human_advisory_node", "payslip_verification_node"}

PendingReviewValues ==
    {{}, {ReviewItem("id_verification", TRUE)},
     {ReviewItem("payslip_verification_review", TRUE)}}

ReviewResponseValues ==
    {{}, {[verification_type |-> "payslip_verification_review",
           approved |-> TRUE]}}

\* The records that differ from s in the keys the router reads besides the
\* identity result and the identity approval
RouterVariants(s) ==
    {Keyed([s EXCEPT !.next_verification = nv, !.next_agent = na,
                     !.pending_reviews = pr, !.review_responses = rr,
                     !.human_approvals["data_readiness_override"] = dro]) :
        nv \in NextVerificationValues, na \in NextAgentValues,
        pr \in PendingReviewValues, rr \in ReviewResponseValues,
        dro \in {"none", "approved"}}

\* The plans next to which a review can be queued: the initial plan, and the
\* plan revised after an employment mention (payslip required)
RouterPlans ==
    {InitialPlan,
     [InitialPlan EXCEPT
         !.payslip_verification_required = TRUE,
         !.verification_requirements =
             PutReq(@, "payslip_verification", PayslipRequirement)]}

RouterInputs ==
    UNION {RouterVariants(
              [create_initial_state EXCEPT
                  !.id_verification = r,
                  !.human_approvals["id_verification"] = a,
                  !.human_approvals["payslip_verification_review"] = pa,
                  !.verification_plan = vp]) :
           r \in Results, a \in ApprovalValues, pa \in {"none", "approved"},
           vp \in RouterPlans}

InitRoute ==
    /\ state \in RouterInputs
    /\ pc = "route"
    /\ get_approval = ""
    /\ routed = Absent

ApplyRoute ==
    /\ pc = "route"
    /\ routed' = route_after_risk_assessment(state)
    /\ pc' = "routed"
    /\ UNCHANGED <<state, get_approval>>

\* The edge function after a check node, applied to the same records
ApplyReviewCheck ==
    /\ pc = "route"
    /\ routed' = verification_needs_human_review(state)
    /\ state' = verification_needs_human_review_effect(state)
    /\ pc' = "review_checked"
    /\ UNCHANGED get_approval

\* The edge function after summarization_node, applied to the same records
ApplySummarizationRoute ==
    /\ pc = "route"
    /\ routed' = route_after_summarization(state)
    /\ state' = route_after_summarization_effect(state)
    /\ pc' = "summarization_routed"
    /\ UNCHANGED get_approval

NextRoute == ApplyRoute \/ ApplyReviewCheck \/ ApplySummarizationRoute

SpecRoute == InitRoute /\ [][NextRoute]_vars

(***************************************************************************)
(* The record a run starts with: run_workflow uses create_initial_state, or *)
(* the initial_state it is given (main.py loads --import-state and passes  *)
(* it on), and the graph starts at risk_assessment_node with that record.  *)
(***************************************************************************)
\* The web results an imported record holds: none, or one the web agent
\* stores
ImportedWebResults == {NoWebResult} \cup WebOutcomes

ImportedPayslipResults == {NoResult, MkResult(TRUE, FALSE)}

\* A record holding check results and reviewer decisions; when the web result
\* is there, the plan and next_verification are the ones the planner's
\* functions compute from the results.
ImportedRecord(r, a, rr, w, p) ==
    LET base ==
            Keyed([create_initial_state EXCEPT
                !.id_verification = r,
                !.human_approvals["id_verification"] = a,
                !.issues_at_review =
                    IF a = "approved" THEN r.issues_found ELSE Absent,
                !.human_approvals["payslip_verification_review"] =
                    IF rr # {} THEN "approved" ELSE "none",
                !.review_responses = rr,
                !.web_references = w,
                !.payslip_verification = p])
    IN  IF w.present
        THEN check_verification_completion(
                 analyze_web_references(create_verification_plan(base)))
        ELSE base

\* ImportedRecord(NoResult, "none", {}, NoWebResult, NoResult) is the fresh
\* record; workflow.add_edge("__start__", "risk_assessment_node")
Init ==
    /\ \E r \in Results, a \in {"none", "approved"},
          rr \in ReviewResponseValues, w \in ImportedWebResults,
          p \in ImportedPayslipResults :
          /\ a = "approved" => (r.present /\ ~r.verified)
          /\ w.present => (r.present /\ (r.verified \/ a = "approved"))
          /\ p.present => (w.present /\ employment_mentioned(w.mentions))
          /\ state = ImportedRecord(r, a, rr, w, p)
    /\ pc = "risk_assessment_node"
    /\ get_approval = ""
    /\ routed = Absent

Spec == Init /\ [][Next]_vars

(***************************************************************************)
(* The plan revision as a function: analyze_web_references applied to a    *)
(* record holding the initial plan, then again after the completion check. *)
(***************************************************************************)
PlanInputs ==
    {Keyed([create_initial_state EXCEPT
         !.id_verification = r,
         !.human_approvals["id_verification"] = a,
         !.web_references = w,
         !.payslip_verification = p,
         !.financial_reports = f,
         !.verification_plan = InitialPlan,
         !.next_verification = "web_references_node"]) :
        r \in {NoResult, MkResult(TRUE, FALSE), MkResult(FALSE, TRUE)},
        a \in {"none", "approved"},
        w \in WebResults \cup WebOutcomes \cup {NoWebResult},
        p \in {NoResult, MkResult(TRUE, FALSE)},
        f \in {NoResult, MkResult(TRUE, FALSE)}}

InitPlan ==
    /\ state \in PlanInputs
    /\ pc = "plan"
    /\ get_approval = ""
    /\ routed = Absent

ApplyAnalyze ==
    /\ pc = "plan"
    /\ state' = analyze_web_references(state)
    /\ pc' = "analyzed"
    /\ UNCHANGED <<get_approval, routed>>

ApplyCheck ==
    /\ pc = "analyzed"
    /\ state' = check_verification_completion(state)
    /\ pc' = "checked"
    /\ UNCHANGED <<get_approval, routed>>

ReapplyAnalyze ==
    /\ pc \in {"analyzed", "checked"}
    /\ state' = analyze_web_references(state)
    /\ pc' = "reanalyzed"
    /\ UNCHANGED <<get_approval, routed>>

NextPlan == ApplyAnalyze \/ ApplyCheck \/ ReapplyAnalyze

SpecPlan == InitPlan /\ [][NextPlan]_vars


(***************************************************************************)
(* The completion check as a function: check_verification_completion       *)
(* applied to a record whose plan holds the entries the plan revision      *)
(* writes, in any insertion order (the order depends on the web data of    *)
(* successive revisions).                                                  *)
(***************************************************************************)
CompletionEntries ==
    {MkReq("web_references", TRUE, st, 2) : st \in {"pending", "completed"}}
    \cup {MkReq("payslip_verification", TRUE, st, 3) :
             st \in {"pending", "completed"}}
    \cup {FinancialRequirement(e) : e \in BOOLEAN}
    \cup {[FinancialRequirement(e) EXCEPT !.status = "completed"] :
             e \in BOOLEAN}

\* A dictionary holds each key once
CompletionPlans ==
    {q \in SeqsUpTo(CompletionEntries, Cardinality(VTypes)) :
        Cardinality(ReqKeys(q)) = Len(q)}

CompletionResults == {NoResult, MkResult(TRUE, FALSE), MkResult(FALSE, TRUE)}

CompletionInputs ==
    {Keyed([create_initial_state EXCEPT
         !.id_verification = r,
         !.human_approvals["id_verification"] = a,
         !.web_references = w,
         !.payslip_verification = p,
         !.financial_reports = f,
         !.verification_plan =
             [present |-> TRUE,
              payslip_verification_required |->
                  HasReq(q, "payslip_verification"),
              financial_reports_required |-> HasReq(q, "financial_reports"),
              verification_requirements |-> q]]) :
        r \in {MkResult(TRUE, FALSE), MkResult(FALSE, TRUE)},
        a \in {"none", "approved"},
        w \in {NoWebResult, MkWebResult(TRUE, <<>>, <<>>),
               MkWebResult(FALSE, <<>>, <<>>)},
        p \in CompletionResults,
        f \in CompletionResults,
        q \in CompletionPlans}

InitCompletion ==
    /\ state \in CompletionInputs
    /\ pc = "completion"
    /\ get_approval = ""
    /\ routed = Absent

ApplyCompletion ==
    /\ pc = "completion"
    /\ state' = check_verification_completion(state)
    /\ pc' = "completion_checked"
    /\ UNCHANGED <<get_approval, routed>>

NextCompletion == ApplyCompletion

SpecCompletion == InitCompletion /\ [][NextCompletion]_vars

(***************************************************************************)
(* Summarization and risk scoring as functions: summarization_agent, then  *)
(* perform_risk_assessment, applied to a record holding check results, a   *)
(* plan, reviewer decisions and queued reviews; perform_risk_assessment is *)
(* also applied without a summary (its fallback branch).                   *)
(***************************************************************************)
RiskResults == {NoResult, MkResult(TRUE, FALSE), MkResult(FALSE, TRUE)}

\* The identity and payslip results, whose warnings the summarizer reads
RiskWarnedResults == RiskResults \cup {WarnedResult(w) : w \in WarningLists}

\* Web results of at most one mention without analysis.company, and the
\* results the web agent stores
RiskWebOutcomes ==
    {NoWebResult}
    \cup WebOutcomes
    \cup {w \in WebResults :
             /\ Len(w.mentions) <= 1
             /\ \A i \in 1..Len(w.mentions) : w.mentions[i].company = ""}

\* The plans the record can hold next to the web result w: none, the initial
\* plan, or the plan revised from w
RiskPlans(w) ==
    {NoPlan, InitialPlan}
    \cup (IF w.present
          THEN {analyze_web_references(
                    [create_initial_state EXCEPT
                        !.id_verification = MkResult(TRUE, FALSE),
                        !.web_references = w,
                        !.verification_plan = InitialPlan]).verification_plan}
          ELSE {})

\* Reviewer decisions: any set of rejections, or one approval next to at most
\* one rejection; the record holds their keys in one of KeyOrders
RiskApprovals ==
    {h \in [ApprovalKeys -> ApprovalValues] :
        LET approved == {k \in ApprovalKeys : h[k] = "approved"}
            rejected == {k \in ApprovalKeys : h[k] = "rejected"}
        IN  \/ approved = {}
            \/ Cardinality(approved) = 1 /\ Cardinality(rejected) <= 1}

\* The payslip agent queues a review when its result has issues
RiskPendingReviews(p) ==
    {{}} \cup (IF p.present /\ p.issues_found
               THEN {{ReviewItem("payslip_verification_review", TRUE)}}
               ELSE {})

RiskInput(r, p, w, f, h, keys, vp, pr) ==
    [create_initial_state EXCEPT
        !.id_verification = r,
        !.payslip_verification = p,
        !.web_references = w,
        !.financial_reports = f,
        !.human_approvals = h,
        !.human_approvals_keys = keys,
        !.verification_plan = vp,
        !.pending_reviews = pr]

InitRisk ==
    /\ \E r \in RiskWarnedResults, p \in RiskWarnedResults,
          w \in RiskWebOutcomes, f \in RiskResults, h \in RiskApprovals :
          \E vp \in RiskPlans(w), pr \in RiskPendingReviews(p),
             keys \in KeyOrders(h) :
             state = RiskInput(r, p, w, f, h, keys, vp, pr)
    /\ pc = "risk"
    /\ get_approval = ""
    /\ routed = Absent

ApplySummarization ==
    /\ pc = "risk"
    /\ state' = summarization_agent(state)
    /\ pc' = "summarized"
    /\ UNCHANGED <<get_approval, routed>>

ApplyAssessment ==
    /\ pc = "summarized"
    /\ state' = perform_risk_assessment(state)
    /\ pc' = "assessed"
    /\ UNCHANGED <<get_approval, routed>>

AssessWithoutSummary ==
    /\ pc = "risk"
    /\ state' = perform_risk_assessment(state)
    /\ pc' = "assessed_direct"
    /\ UNCHANGED <<get_approval, routed>>

NextRisk == ApplySummarization \/ ApplyAssessment \/ AssessWithoutSummary

SpecRisk == InitRisk /\ [][NextRisk]_vars

(***************************************************************************)
(* The Summarizer applied twice: summarization_agent writes the summary    *)
(* into the record it was given and returns it, and a second call gets     *)
(* that record.                                                            *)
(***************************************************************************)
MaxSummaryMentions == 4

\* Mentions that differ in their source
SummaryMentions ==
    {m \in Mentions : m.company = "" /\ m.details = "Investor and Shareholder"}

SummaryWebOutcomes ==
    {NoWebResult}
    \cup {MkWebResult(TRUE, m, f) :
             m \in SeqsUpTo(SummaryMentions, MaxSummaryMentions),
             f \in SeqsUpTo(RiskFlagTexts, MaxRiskFlags)}

SummaryInput(r, a, p, w, required) ==
    Keyed([create_initial_state EXCEPT
        !.id_verification = r,
        !.human_approvals["id_verification"] = a,
        !.payslip_verification = p,
        !.web_references = w,
        !.verification_plan =
            [InitialPlan EXCEPT !.payslip_verification_required = required]])

InitSummary ==
    /\ \E r \in RiskWarnedResults, a \in {"none", "approved"},
          p \in RiskWarnedResults, w \in SummaryWebOutcomes,
          required \in BOOLEAN :
          state = SummaryInput(r, a, p, w, required)
    /\ pc = "summarize"
    /\ get_approval = ""
    /\ routed = Absent

\* The first call; routed keeps the summary it produced
SummarizeOnce ==
    /\ pc = "summarize"
    /\ state' = summarization_agent(state)
    /\ routed' = state'.verification_summary
    /\ pc' = "summarized_once"
    /\ UNCHANGED get_approval

\* The second call, on the record the first call returned
SummarizeAgain ==
    /\ pc = "summarized_once"
    /\ state' = summarization_agent(state)
    /\ pc' = "summarized_twice"
    /\ UNCHANGED <<get_approval, routed>>

NextSummary == SummarizeOnce \/ SummarizeAgain

SpecSummary == InitSummary /\ [][NextSummary]_vars

(***************************************************************************)
(* Recording review responses: process_review_response (core/state.py)     *)
(* builds the update, apply_state_update (workflow/runner.py) merges it.   *)
(* In this part `state` holds the two keys the update touches, with the    *)
(* approval details in full: human_approvals maps a reviewed type to its   *)
(* detail (a dict is a function on its keys, {} and [] are <<>>).          *)
(* An issues_at_review list is a list object [id, items]: two references   *)
(* with the same id other than 0 are references to one Python list, and a  *)
(* list with id 0 is referred to from one place only.                      *)
(***************************************************************************)
MaxResponses == 2
MaxIssues == 1

ReviewTypes == {"payslip_verification_review", "data_readiness_override"}
IssueTexts == {"Employer name mismatch"}
ReviewerComments == {"None", "Checked with employer"}

ListObject(id, items) == [id |-> id, items |-> items]

\* `issues_at_review or []`: the caller's list when it is non-empty, a new
\* empty list otherwise
or_new_list(issues_at_review) ==
    IF issues_at_review.items # <<>> THEN issues_at_review
    ELSE ListObject(0, <<>>)

\* process_review_response(verification_type, approved, reviewer_comments,
\* issues_at_review): the expression `issues_at_review or []` is evaluated
\* once for the response and once for the approval detail, so a non-empty
\* list is one object in both; review_date is left out
process_review_response(verification_type, approved, reviewer_comments, issues_at_review) ==
    [review_responses |->
        << [verification_type |-> verification_type,
            approved |-> approved,
            reviewer_comments |-> reviewer_comments,
            issues_at_review |-> or_new_list(issues_at_review)] >>,
     human_approvals |->
        [k \in {verification_type} |->
            [approved |-> approved,
             issues_at_review |-> or_new_list(issues_at_review),
             reviewer_comments |-> reviewer_comments]]]

replace_keys == {"next_verification", "next_agent"}

\* isinstance(value, dict) / isinstance(value, list), decided by the key
DictKeys == {"human_approvals"} \cup ReviewTypes
ListKeys == {"review_responses", "issues_at_review"}

\* result[key].extend(value): review_responses is a list of responses, an
\* issues_at_review list keeps its identity
extend(key, list, value) ==
    IF key = "issues_at_review"
    THEN ListObject(list.id, list.items \o value.items)
    ELSE list \o value

\* The loop of apply_state_update over the update's items, with the
\* recursive call for nested dictionaries
RECURSIVE merge_items(_, _)
merge_items(base_state, update) ==
    IF DOMAIN update = {} THEN base_state
    ELSE [key \in DOMAIN base_state \cup DOMAIN update |->
            IF key \notin DOMAIN update THEN base_state[key]
            ELSE IF key \in replace_keys THEN update[key]
            ELSE IF key \in DictKeys /\ key \in DOMAIN base_state
            THEN merge_items(base_state[key], update[key])
            ELSE IF key \in ListKeys /\ key \in DOMAIN base_state
            THEN extend(key, base_state[key], update[key])
            ELSE update[key]]

\* The issues_at_review lists a record refers to
IssueLists(record) ==
    {record.human_approvals[k].issues_at_review :
        k \in DOMAIN record.human_approvals}
    \cup {record.review_responses[i].issues_at_review :
             i \in DOMAIN record.review_responses}

\* What a reference to a list shows once the extensions have been made: an
\* extension is made in place, so every reference to the same list shows
\* the extended contents (lists only grow)
as_extended(record, list) ==
    IF list.id = 0 THEN list
    ELSE CHOOSE x \in IssueLists(record) :
            /\ x.id = list.id
            /\ \A y \in IssueLists(record) :
                  y.id = list.id => Len(y.items) <= Len(x.items)

\* The record as it reads after the call, every reference followed
extended_in_place(record) ==
    [record EXCEPT
        !.human_approvals =
            [k \in DOMAIN @ |->
                [@[k] EXCEPT !.issues_at_review = as_extended(record, @)]],
        !.review_responses =
            [i \in DOMAIN @ |->
                [@[i] EXCEPT !.issues_at_review = as_extended(record, @)]]]

\* apply_state_update(base_state, update) for a record that holds
\* human_approvals and review_responses
apply_state_update(base_state, update) ==
    extended_in_place(merge_items(base_state, update))

\* create_initial_state: "human_approvals": {}, "review_responses": []
InitReview ==
    /\ state = [human_approvals |-> <<>>, review_responses |-> <<>>]
    /\ pc = "review"
    /\ get_approval = ""
    /\ routed = Absent

\* One reviewer response is built and merged into the record; each call is
\* given a list of its own; routed keeps the update that was applied
RecordReviewResponse ==
    /\ pc = "review"
    /\ Len(state.review_responses) < MaxResponses
    /\ \E verification_type \in ReviewTypes, approved \in BOOLEAN,
          reviewer_comments \in ReviewerComments,
          issues_at_review \in SeqsUpTo(IssueTexts, MaxIssues) :
          /\ routed' = process_review_response(
                           verification_type, approved, reviewer_comments,
                           ListObject(Len(state.review_responses) + 1,
                                      issues_at_review))
          /\ state' = apply_state_update(state, routed')
    /\ UNCHANGED <<pc, get_approval>>

NextReview == RecordReviewResponse

SpecReview == InitReview /\ [][NextReview]_vars

(***************************************************************************)
(* apply_state_update and its argument: result = base_state.copy() is a    *)
(* shallow copy, so result and base_state hold the same list and nested    *)
(* dictionary objects when the loop over the update starts.                *)
(***************************************************************************)
\* base_state as the caller finds it after apply_state_update(base_state,
\* update) returned: result[key].extend(value) extends the list base_state
\* holds too, and the recursive call gets base_state's nested dictionary as
\* its own base_state; assignments result[key] = ... leave base_state alone
RECURSIVE base_items_after(_, _)
base_items_after(base_state, update) ==
    IF DOMAIN update = {} THEN base_state
    ELSE [key \in DOMAIN base_state |->
            IF key \notin DOMAIN update THEN base_state[key]
            ELSE IF key \in replace_keys THEN base_state[key]
            ELSE IF key \in DictKeys
            THEN base_items_after(base_state[key], update[key])
            ELSE IF key \in ListKeys
            THEN extend(key, base_state[key], update[key])
            ELSE base_state[key]]

base_state_after(base_state, update) ==
    extended_in_place(base_items_after(base_state, update))

\* The review responses built from the list object numbered id
MergeResponses(id) ==
    {process_review_response(verification_type, approved, "None",
                             ListObject(id, issues)) :
        verification_type \in ReviewTypes, approved \in BOOLEAN,
        issues \in SeqsUpTo(IssueTexts, MaxIssues)}

\* The records apply_state_update is given as base_state: nothing recorded
\* yet, or one response already merged (the record then holds the update's
\* response and approval detail themselves)
MergeBases ==
    {[next_verification |-> nv, next_agent |-> "human_advisory_node",
      human_approvals |-> h, review_responses |-> r] :
        nv \in {"payslip_verification", "summarization"},
        h \in {<<>>}, r \in {<<>>}}
    \cup {[next_verification |-> nv, next_agent |-> "human_advisory_node",
           human_approvals |-> u.human_approvals,
           review_responses |-> u.review_responses] :
             nv \in {"payslip_verification", "summarization"},
             u \in MergeResponses(1)}

\* The updates: the empty one, a routing update, and a review response
MergeUpdates ==
    {<<>>}
    \cup {[next_verification |-> "summarization",
           next_agent |-> "summarization_agent"]}
    \cup MergeResponses(2)

InitMerge ==
    /\ \E base_state \in MergeBases :
          state = [base_state |-> base_state, result |-> base_state]
    /\ pc = "merge"
    /\ get_approval = ""
    /\ routed = <<>>

\* result = apply_state_update(base_state, update); routed keeps the update
ApplyStateUpdate ==
    /\ pc = "merge"
    /\ \E update \in MergeUpdates :
          /\ routed' = update
          /\ state' = [base_state |->
                          base_state_after(state.base_state, update),
                      result |-> apply_state_update(state.base_state, update)]
    /\ pc' = "merged"
    /\ UNCHANGED get_approval

NextMerge == ApplyStateUpdate

SpecMerge == InitMerge /\ [][NextMerge]_vars

(***************************************************************************)
(* The audit log.  log_action (core/state.py) returns the update           *)
(* {"audit_log": [entry]}; the key is declared                             *)
(* Annotated[List[AuditLogEntry], operator.add], so the graph adds the     *)
(* list a node returns to the list it holds.  The log is followed in this  *)
(* part only: `state` is a record of the run extended with audit_log, and  *)
(* each action is one step applied to it and merged by the graph.          *)
(***************************************************************************)
\* log_action(agent_name, action): the list under "audit_log" in the update
log_action(agent_name, action) ==
    << [agent |-> agent_name, action |-> action] >>

\* operator.add on lists
operator_add(left, right) == left \o right

\* The graph's merge of a node's returned record: audit_log goes through its
\* reducer, the other keys take the returned value
merge_returned(held, returned) ==
    [returned EXCEPT !.audit_log = operator_add(held, returned.audit_log)]

\* The logs a record can arrive with: none, or the planner's first entry
AuditLogs ==
    {<<>>, log_action("Risk_Assessment_Agent",
                      "Prioritizing ID verification as first step")}

InterruptEntry ==
    log_action("Human_Advisory_Agent",
               "Interrupting workflow for ID verification review")

\* new_state = state.copy() shares the audit_log list with the record the
\* node was given, so new_state["audit_log"].extend(...) may or may not show
\* in the list the graph holds: both outcomes are kept
held_after_extend(before, extended, leaked) ==
    IF leaked THEN extended ELSE before

AuditedSteps ==
    {"create_verification_plan", "analyze_web_references",
     "summarization_agent", "perform_risk_assessment", "approved"}

InitAudit ==
    /\ \E r \in Results \ {NoResult}, a \in {"none", "approved"},
          w \in ImportedWebResults, vp \in {NoPlan, InitialPlan},
          log \in AuditLogs :
          /\ a = "approved" => ~r.verified
          /\ w.present => (vp.present /\ (r.verified \/ a = "approved"))
          /\ state =
               Keyed([create_initial_state EXCEPT
                   !.id_verification = r,
                   !.human_approvals["id_verification"] = a,
                   !.issues_at_review =
                       IF a = "approved" THEN r.issues_found ELSE Absent,
                   !.web_references = w,
                   !.verification_plan = vp])
               @@ [audit_log |-> log]
    /\ pc = "audit"
    /\ get_approval = ""
    /\ routed = Absent

\* Plan creation: create_verification_plan returns new_state, built from {}
\* with the plan, the step and next_verification; the update log_action
\* built is dropped, the return has no audit_log key and the log the graph
\* holds stays as it is
AuditPlanCreation ==
    /\ pc = "audit"
    /\ IdResolved(state)
    /\ ~state.verification_plan.present
    /\ state' = [create_verification_plan(state) EXCEPT
                    !.audit_log = state.audit_log]
    /\ pc' = "create_verification_plan"
    /\ UNCHANGED <<get_approval, routed>>

\* Plan revision: analyze_web_references returns new_state
AuditPlanRevision ==
    /\ pc = "audit"
    /\ IdResolved(state)
    /\ state.web_references.present
    /\ state' = merge_returned(state.audit_log, analyze_web_references(state))
    /\ pc' = "analyze_web_references"
    /\ UNCHANGED <<get_approval, routed>>

\* Summarization: summarization_agent returns the record it was given
AuditSummarization ==
    /\ pc = "audit"
    /\ IdResolved(state)
    /\ state.verification_plan.present
    /\ state' = merge_returned(state.audit_log, summarization_agent(state))
    /\ pc' = "summarization_agent"
    /\ UNCHANGED <<get_approval, routed>>

\* Risk assessment after summarization: perform_risk_assessment returns
\* new_state
AuditRiskAssessment ==
    /\ pc = "summarization_agent"
    /\ state' = merge_returned(state.audit_log, perform_risk_assessment(state))
    /\ pc' = "perform_risk_assessment"
    /\ UNCHANGED <<get_approval, routed>>

\* The blocking identity review up to input(): the interrupt entry is
\* appended in place to the audit_log of the record the node was given, and
\* the node waits for the answer; routed keeps the log as it was before
AuditInterrupt ==
    /\ pc = "audit"
    /\ needs_blocking_review(state)
    /\ state' = [state EXCEPT !.audit_log = operator_add(@, InterruptEntry)]
    /\ routed' = state.audit_log
    /\ pc' = "input"
    /\ UNCHANGED get_approval

\* The blocking identity review from the answer on: "yes" writes the
\* approval and returns Command(update=new_state), any other answer returns
\* Command(goto="end") without an update
AuditBlockingReview ==
    /\ pc = "input"
    /\ \E answer \in Answers, leaked \in BOOLEAN :
          /\ get_approval' = answer
          /\ IF answer = "yes"
             THEN /\ state' =
                        merge_returned(
                            held_after_extend(routed, state.audit_log, leaked),
                            approve_identity(state))
                  /\ pc' = "approved"
             ELSE /\ state' =
                        [state EXCEPT
                            !.audit_log =
                                held_after_extend(routed, @, leaked)]
                  /\ pc' = "rejected"
    /\ UNCHANGED routed

NextAudit ==
    \/ AuditPlanCreation
    \/ AuditPlanRevision
    \/ AuditSummarization
    \/ AuditRiskAssessment
    \/ AuditInterrupt
    \/ AuditBlockingReview

SpecAudit == InitAudit /\ [][NextAudit]_vars

(***************************************************************************)
(* The runner's module globals (workflow/runner.py) under several client   *)
(* runs.  run_workflow is a coroutine: it runs without interruption up to  *)
(* `await _current_workflow.ainvoke(...)` and again from the completion of *)
(* that await; run_workflow_step and run_workflow_with_thread are plain    *)
(* functions.  In this part `state` holds the globals, the files written   *)
(* and each workflow's checkpointer, and pc maps a client to the position  *)
(* of its run.  A workflow is named by the client whose run_workflow call  *)
(* created it.                                                             *)
(***************************************************************************)
MaxClients == 2

Clients == 1..MaxClients

\* None for a workflow, a thread id or a file's content (clients count from 1)
None == 0

\* f"client_{client_id}": one thread id per client
thread_id_of(client) == client

\* The file names set_output_file is called with
OutputFiles == {"output_state.json", "client_output.json"}

\* _current_workflow = None, _current_thread_id = None,
\* _output_file = "output_state.json"; no file written, no run started
InitRunner ==
    /\ state = [_current_workflow |-> None,
                _current_thread_id |-> None,
                _output_file |-> "output_state.json",
                files |-> [f \in OutputFiles |-> None],
                checkpoints |-> [w \in Clients |-> {}],
                saved_to |-> [c \in Clients |-> ""],
                invoked_on |-> [c \in Clients |-> None],
                resumed_on |-> [c \in Clients |-> None]]
    /\ pc = [c \in Clients |-> "idle"]
    /\ get_approval = ""
    /\ routed = Absent

\* set_output_file(filename)
SetOutputFile(filename) ==
    /\ state._output_file # filename
    /\ state' = [state EXCEPT !._output_file = filename]
    /\ UNCHANGED <<pc, get_approval, routed>>

\* The ways a save_graph_state call ends: the file holds the record; open()
\* raised and the file is as it was; or json.dump raised after open(..., 'w')
\* had emptied the file.  The last two return False
SaveOutcomes == {"saved", "not_opened", "emptied"}

\* save_graph_state(state_file, state) for the record of a client; an
\* emptied file holds no record, like a file never written
save_graph_state(s, state_file, client, outcome) ==
    [s EXCEPT !.files[state_file] =
        IF outcome = "saved" THEN client
        ELSE IF outcome = "emptied" THEN None
        ELSE @]

\* run_workflow up to the await: the globals are overwritten and ainvoke is
\* called on the workflow just created, with the thread id just set.  The
\* workflow is a new graph with a new checkpointer on every call, also when
\* the client has run before
StartRun(client) ==
    /\ pc[client] # "invoking"
    /\ state' = [state EXCEPT
                    !._current_workflow = client,
                    !._current_thread_id = thread_id_of(client),
                    !.invoked_on[client] = client,
                    !.checkpoints[client] = {}]
    /\ pc' = [pc EXCEPT ![client] = "invoking"]
    /\ UNCHANGED <<get_approval, routed>>

\* run_workflow from the completion of the await.  When ainvoke returns, the
\* graph has written its checkpoints and save_graph_state is called with the
\* file _output_file names; its return value is not looked at.  When ainvoke
\* raises, the except clause logs the error and returns the given state: no
\* file is written, and the checkpointer holds a checkpoint of the thread or
\* not, depending on how far the graph got.  saved_to[client] is the file
\* that holds the output of the client's run, "" when it has none or has
\* emptied it itself
FinishRun(client) ==
    /\ pc[client] = "invoking"
    /\ \/ /\ \E outcome \in SaveOutcomes :
                state' = [save_graph_state(
                              [state EXCEPT
                                  !.checkpoints[state.invoked_on[client]] =
                                      @ \cup {thread_id_of(client)}],
                              state._output_file, client, outcome)
                          EXCEPT !.saved_to[client] =
                              IF outcome = "saved" THEN state._output_file
                              ELSE IF /\ outcome = "emptied"
                                      /\ @ = state._output_file
                              THEN ""
                              ELSE @]
          /\ pc' = [pc EXCEPT ![client] = "finished"]
       \/ /\ \E checkpointed \in BOOLEAN :
                state' = [state EXCEPT
                            !.checkpoints[state.invoked_on[client]] =
                                IF checkpointed
                                THEN @ \cup {thread_id_of(client)}
                                ELSE @]
          /\ pc' = [pc EXCEPT ![client] = "failed"]
    /\ UNCHANGED <<get_approval, routed>>

\* save_graph_state(state_file, state) called by the user of the module with
\* the record of a client.  A run whose output was in that file no longer
\* has it there: the caller replaced it
SaveGraphState(state_file, client) ==
    /\ \E outcome \in SaveOutcomes :
          state' = [save_graph_state(state, state_file, client, outcome)
                    EXCEPT !.saved_to =
                        [c \in Clients |->
                            IF /\ @[c] = state_file
                               /\ outcome # "not_opened"
                               /\ ~(c = client /\ outcome = "saved")
                            THEN ""
                            ELSE @[c]]]
    /\ get_approval' = "save_graph_state"
    /\ UNCHANGED <<pc, routed>>

\* The body shared by run_workflow_step and run_workflow_with_thread:
\* _current_thread_id = thread_id, then _current_workflow.invoke(..., config)
resume(s, client) ==
    [s EXCEPT
        !._current_thread_id = thread_id_of(client),
        !.resumed_on[client] = s._current_workflow,
        !.checkpoints[s._current_workflow] = @ \cup {thread_id_of(client)}]

\* The phase of a client after a step with its thread id: a run that has
\* returned is resumed, a client that never ran or is at its await stays
\* where it is
after_resume(phase) ==
    IF phase \in {"finished", "failed", "resumed"} THEN "resumed" ELSE phase

\* run_workflow_step(thread_id, state, resume_data); with no workflow the
\* call raises ValueError and changes nothing
RunWorkflowStep(client) ==
    /\ state._current_workflow # None
    /\ state' = resume(state, client)
    /\ pc' = [pc EXCEPT ![client] = after_resume(@)]
    /\ get_approval' = "run_workflow_step"
    /\ UNCHANGED routed

\* run_workflow_with_thread(thread_id, state); with no workflow the call
\* raises ValueError and changes nothing
RunWorkflowWithThread(client) ==
    /\ state._current_workflow # None
    /\ state' = resume(state, client)
    /\ pc' = [pc EXCEPT ![client] = after_resume(@)]
    /\ get_approval' = "run_workflow_with_thread"
    /\ UNCHANGED routed

NextRunner ==
    \/ \E filename \in OutputFiles : SetOutputFile(filename)
    \/ \E client \in Clients :
        \/ StartRun(client)
        \/ FinishRun(client)
        \/ RunWorkflowStep(client)
        \/ RunWorkflowWithThread(client)
        \/ \E state_file \in OutputFiles : SaveGraphState(state_file, client)

SpecRunner == InitRunner /\ [][NextRunner]_vars

(***************************************************************************)
(* AgentRegistry (src/agent_playground/core/registry.py): names are        *)
(* registered with a config object, and the singleton flag of a            *)
(* registration is kept in that object's metadata.  An instance is the     *)
(* number of the agent_class(new_config) call that built it.               *)
(***************************************************************************)
MaxInstances == 3

AgentNames == {"agent_a", "agent_b"}

\* The AgentConfig objects a caller can pass to register
ConfigObjects == {"config_1", "config_2"}

\* AgentRegistry.__init__; metadata[c] is c.metadata.get("singleton"), "unset"
\* while c has no metadata; created counts the instances built so far.
\* registered_as and returned are history: the singleton argument of a
\* name's current registration, and the instance its last create returned
\* under that registration.
InitRegistry ==
    /\ state = [_agents |-> {},
                _configs |-> [name \in AgentNames |-> "none"],
                _instances |-> [name \in AgentNames |-> None],
                metadata |-> [config \in ConfigObjects |-> "unset"],
                created |-> 0,
                registered_as |-> [name \in AgentNames |-> "unset"],
                returned |-> [name \in AgentNames |-> None]]
    /\ pc = "new"
    /\ get_approval = ""
    /\ routed = [name |-> "", result |-> None, raised |-> FALSE]

Flag(singleton) == IF singleton THEN "singleton" ELSE "plain"

\* self._agents[name] = agent_class; self._configs[name] = config;
\* config.metadata['singleton'] = singleton
register(reg, name, config, singleton) ==
    [reg EXCEPT !._agents = @ \cup {name},
                !._configs[name] = config,
                !.metadata[config] = Flag(singleton)]

\* base_config.metadata.get('singleton', False)
is_singleton(reg, name) == reg.metadata[reg._configs[name]] = "singleton"

\* The value create(name) returns: the stored instance of a singleton, or
\* the instance built by this call; None stands for the ValueError
create_result(reg, name) ==
    IF name \notin reg._agents THEN None
    ELSE IF is_singleton(reg, name) /\ reg._instances[name] # None
    THEN reg._instances[name]
    ELSE reg.created + 1

create(reg, name) ==
    IF name \notin reg._agents THEN reg
    ELSE IF is_singleton(reg, name) /\ reg._instances[name] # None THEN reg
    ELSE [reg EXCEPT !.created = @ + 1,
                     !._instances[name] =
                         IF is_singleton(reg, name) THEN reg.created + 1
                         ELSE @]

\* get_or_create(name): the stored instance when the name has one, whether
\* or not its registration is a singleton, else create(name)
get_or_create_result(reg, name) ==
    IF reg._instances[name] # None THEN reg._instances[name]
    ELSE create_result(reg, name)

get_or_create(reg, name) ==
    IF reg._instances[name] # None THEN reg ELSE create(reg, name)

unregister(reg, name) ==
    IF name \notin reg._agents THEN reg
    ELSE [reg EXCEPT !._agents = @ \ {name},
                     !._configs[name] = "none",
                     !._instances[name] = None]

clear(reg) ==
    [reg EXCEPT !._agents = {},
                !._configs = [name \in AgentNames |-> "none"],
                !._instances = [name \in AgentNames |-> None]]

list_agents(reg) == reg._agents

Register(name, config, singleton) ==
    /\ state' = [register(state, name, config, singleton) EXCEPT
                    !.registered_as[name] = Flag(singleton),
                    !.returned[name] = None]
    /\ pc' = "register"
    /\ routed' = [name |-> name, result |-> None, raised |-> FALSE]
    /\ UNCHANGED get_approval

Create(name) ==
    /\ state.created < MaxInstances
    /\ LET result == create_result(state, name)
       IN  /\ state' = [create(state, name) EXCEPT
                           !.returned[name] = result]
           /\ routed' = [name |-> name, result |-> result,
                         raised |-> name \notin state._agents]
    /\ pc' = "create"
    /\ UNCHANGED get_approval

\* get_or_create(name); returned is the result of the create call it makes,
\* and is left alone when it makes none
GetOrCreate(name) ==
    /\ state.created < MaxInstances
    /\ LET result == get_or_create_result(state, name)
       IN  /\ state' = [get_or_create(state, name) EXCEPT
                           !.returned[name] =
                               IF state._instances[name] # None THEN @
                               ELSE result]
           /\ routed' = [name |-> name, result |-> result,
                         raised |-> name \notin state._agents]
    /\ pc' = "get_or_create"
    /\ UNCHANGED get_approval

Unregister(name) ==
    /\ state' = [unregister(state, name) EXCEPT
                    !.registered_as[name] = "unset",
                    !.returned[name] = None]
    /\ pc' = "unregister"
    /\ routed' = [name |-> name, result |-> None, raised |-> FALSE]
    /\ UNCHANGED get_approval

Clear ==
    /\ state' = [clear(state) EXCEPT
                    !.registered_as = [name \in AgentNames |-> "unset"],
                    !.returned = [name \in AgentNames |-> None]]
    /\ pc' = "clear"
    /\ routed' = [name |-> "", result |-> None, raised |-> FALSE]
    /\ UNCHANGED get_approval

NextRegistry ==
    \/ \E name \in AgentNames, config \in ConfigObjects,
          singleton \in BOOLEAN : Register(name, config, singleton)
    \/ \E name \in AgentNames : Create(name)
    \/ \E name \in AgentNames : GetOrCreate(name)
    \/ \E name \in AgentNames : Unregister(name)
    \/ Clear

SpecRegistry == InitRegistry /\ [][NextRegistry]_vars

(***************************************************************************)
(* The blocking identity review of human_advisory_agent                    *)
(* (agents/human_advisory_agent.py, lines 133-178) on records that hold    *)
(* the identity result with its list of issues and the approval details.   *)
(* The record is [id_verification, human_approvals]; pc is the node, or    *)
(* "input" while the prompt waits for the reviewer.                        *)
(***************************************************************************)
MaxIdentityIssues == 3

\* Issue texts IDVerificationAgent.verify_document and run put in
\* issues_found: the fixed texts, and the texts of the model reply's
\* potential_issues, which are any strings
IdentityIssues == {"ID document has expired", "Invalid expiry date format", "No expiry date found", "No ID document found", "Photo appears altered"}

\* An identity result that failed: with an issues_found list, or without the
\* key
FailedIdentityResults ==
    {[verified |-> FALSE, issues_found |-> issues] :
        issues \in SeqsUpTo(IdentityIssues, MaxIdentityIssues)}
    \cup {[verified |-> FALSE]}

HumanApprovalDetail(approved, issues_at_review, reviewer_comments) ==
    [approved |-> approved,
     issues_at_review |-> issues_at_review,
     reviewer_comments |-> reviewer_comments]

\* The human_approvals a record can hold when the identity review starts:
\* none, a rejected identity review, an approved payslip review
ApprovalsBeforeReview ==
    {<<>>,
     [k \in {"id_verification"} |->
        HumanApprovalDetail(FALSE, <<"ID document has expired">>, "None")],
     [k \in {"payslip_verification_review"} |->
        HumanApprovalDetail(TRUE, <<>>, "Checked with employer")]}

\* "id_verification" in state and not state["id_verification"].get(
\* "verified", False), and not new_state["human_approvals"].get(
\* "id_verification", {}).get("approved", False)
identity_review_due(s) ==
    /\ ~s.id_verification.verified
    /\ ~(/\ "id_verification" \in DOMAIN s.human_approvals
         /\ s.human_approvals["id_verification"].approved)

\* issues = id_verification_data.get("issues_found", [])
issues_under_review(id_verification_data) ==
    IF "issues_found" \in DOMAIN id_verification_data
    THEN id_verification_data.issues_found
    ELSE <<>>

\* Variant of approve_identity_review: only the first issue is recorded
approve_identity_review_truncated(s) ==
    [s EXCEPT !.human_approvals =
        [k \in DOMAIN @ \cup {"id_verification"} |->
            IF k = "id_verification"
            THEN HumanApprovalDetail(
                     TRUE,
                     IF issues_under_review(s.id_verification) = <<>>
                     THEN <<>>
                     ELSE <<Head(issues_under_review(s.id_verification))>>,
                     "Human review approved ID verification")
            ELSE @[k]]]

\* new_state["human_approvals"]["id_verification"] = HumanApprovalDetail(
\* approved=True, review_date=..., issues_at_review=issues,
\* reviewer_comments="Human review approved ID verification"); review_date
\* is left out
approve_identity_review(s) ==
    [s EXCEPT !.human_approvals =
        [k \in DOMAIN @ \cup {"id_verification"} |->
            IF k = "id_verification"
            THEN HumanApprovalDetail(
                     TRUE,
                     issues_under_review(s.id_verification),
                     "Human review approved ID verification")
            ELSE @[k]]]

InitApproval ==
    /\ \E result \in FailedIdentityResults, approvals \in ApprovalsBeforeReview :
          state = [id_verification |-> result, human_approvals |-> approvals]
    /\ pc = "human_advisory_node"
    /\ get_approval = ""
    /\ routed = Absent

\* The node up to the prompt: the review is due, the interruption is logged
\* and input() waits for the reviewer
ApprovalPrompt ==
    /\ pc = "human_advisory_node"
    /\ identity_review_due(state)
    /\ pc' = "input"
    /\ UNCHANGED <<state, get_approval, routed>>

\* The reviewer's answer: Command(goto="risk_assessment_node",
\* update=new_state) after "yes", Command(goto="end") otherwise
ApprovalAnswer ==
    /\ pc = "input"
    /\ \E answer \in Answers :
          /\ get_approval' = answer
          /\ IF answer = "yes"
             THEN /\ state' = approve_identity_review(state)
                  /\ pc' = "risk_assessment_node"
             ELSE /\ state' = state
                  /\ pc' = "end"
    /\ UNCHANGED routed

NextApproval == ApprovalPrompt \/ ApprovalAnswer

SpecApproval == InitApproval /\ [][NextApproval]_vars

C2_BlockedUntilReviewed ==
    needs_blocking_review(state) =>
        /\ \A a \in {"none", "rejected"} :
             \A v \in RouterVariants(
                        [state EXCEPT !.human_approvals["id_verification"] = a]) :
                route_after_risk_assessment(v) = "human_advisory_node"
        /\ pc \in {"risk_assessment_node", "human_advisory_node", "end"}
        /\ pc = "risk_assessment_node" =>
              /\ risk_assessment_agent(state) = state
              /\ after_risk_assessment(state) = "human_advisory_node"
        /\ ~state.risk_assessment.present
        /\ ~state.verification_summary.present

C2_Witness ==
    /\ needs_blocking_review(state)
    /\ pc = "human_advisory_node"

\* C3: once the reviewer has rejected the identity at the blocking review the
\* run is over: no node can run any more (no check, summarization, risk
\* assessment, report or further review) and no risk assessment is recorded.
C3_RejectionIsTerminal ==
    get_approval \notin {"", "yes"} =>
        /\ pc = "end"
        /\ ~ENABLED Next
        /\ ~state.risk_assessment.present
        /\ ~state.verification_summary.present
        /\ ~state.web_references.present
        /\ ~state.payslip_verification.present
        /\ ~state.financial_reports.present

C3_Witness ==
    /\ get_approval = "no"
    /\ pc = "end"

\* C4: the identity check hands its result to the run and the run goes on
\* from it: after the step of id_verification_node the record holds an
\* identity result, and when that result is verified the run has not ended.
C4_VerifiedIdentityResumes ==
    [][(pc = "id_verification_node") =>
          /\ state'.id_verification.present
          /\ state'.id_verification.verified =>
                pc' \notin {"raised", "end", "__end__"}]_vars

CleanChecks(s) ==
    /\ s.payslip_verification.present =>
          (s.payslip_verification.verified
           /\ ~s.payslip_verification.issues_found)
    /\ s.web_references.present =>
          (s.web_references.verified /\ s.web_references.risk_flags = <<>>)
    /\ s.financial_reports.present =>
          (s.financial_reports.verified /\ ~s.financial_reports.issues_found)

\* C5: a run with the identity verified or approved in which every check
\* returned verified=true without issues ends with the summary and the risk
\* assessment computed, and never sends the run back to a check whose clean
\* result is already present.
C5_CleanRunReachesReport ==
    (IdResolved(state) /\ CleanChecks(state) /\ state.review_responses = {}) =>
        /\ pc = "__end__" =>
              (state.verification_summary.present
               /\ state.risk_assessment.present)
        /\ pc = "payslip_verification_node" =>
              ~state.payslip_verification.present
        /\ pc = "financial_reports_node" => ~state.financial_reports.present

NonIdentityReviews ==
    {"payslip_verification_review", "employment_corroboration",
     "funds_corroboration"}

\* C6: when the advisory step queues a non-blocking review for a check other
\* than identity, the run continues: the next node is the planner/router.
C6_QueuedReviewContinues ==
    [][(/\ pc = "human_advisory_node"
        /\ ~needs_blocking_review(state)
        /\ \E r \in queued_reviews(state) :
              r.verification_type \in NonIdentityReviews)
          => pc' = "risk_assessment_node"]_vars

\* C7: with no review responses to merge and no identity result, the router
\* returns id_verification_node whatever the other keys hold.
C7_AbsentIdentityRoutesToIdCheck ==
    (/\ pc = "routed"
     /\ state.review_responses = {}
     /\ ~state.id_verification.present)
        => routed = "id_verification_node"

\* C8: after the plan revision, a payslip requirement (required, priority 3)
\* is in the plan iff employment is mentioned; a financial_reports requirement
\* is in the plan iff financial information is mentioned or employment is not,
\* required with priority 3 when employment is not mentioned and optional
\* with priority 4 otherwise.
C8_PlanRevisionRule ==
    (pc \in {"analyzed", "checked", "reanalyzed"}
     /\ state.web_references.present) =>
        LET reqs == state.verification_plan.verification_requirements
            m == state.web_references.mentions
            emp == employment_mentioned(m)
            fin == financial_info_mentioned(m)
        IN  /\ HasReq(reqs, "payslip_verification") <=> emp
            /\ emp => /\ GetReq(reqs, "payslip_verification").required
                      /\ GetReq(reqs, "payslip_verification").priority = 3
            /\ HasReq(reqs, "financial_reports") <=> (fin \/ ~emp)
            /\ HasReq(reqs, "financial_reports") =>
                  /\ GetReq(reqs, "financial_reports").required = ~emp
                  /\ GetReq(reqs, "financial_reports").priority =
                        IF ~emp THEN 3 ELSE 4
            /\ (m = << [source |-> "Bloomberg", company |-> "Acme Corp",
                        details |-> "Senior Analyst at Acme"] >>) =>
                  /\ HasReq(reqs, "payslip_verification")
                  /\ ~HasReq(reqs, "financial_reports")
            /\ (m = <<>>) =>
                  /\ HasReq(reqs, "financial_reports")
                  /\ GetReq(reqs, "financial_reports").required
                  /\ ~HasReq(reqs, "payslip_verification")

C8_Witness ==
    /\ pc = "analyzed"
    /\ state.web_references.present
    /\ employment_mentioned(state.web_references.mentions)
    /\ financial_info_mentioned(state.web_references.mentions)
    /\ HasReq(state.verification_plan.verification_requirements,
              "financial_reports")

\* C9: while no web-references result is present, an existing plan holds
\* exactly one requirement, web_references (required, priority 2, pending);
\* payslip and financial_reports entries exist only once a web-references
\* result is present.
C9_PlanBeforeWebCheck ==
    LET reqs == state.verification_plan.verification_requirements
    IN  /\ (~state.web_references.present /\ state.verification_plan.present)
              => reqs = << [verification_type |-> "web_references",
                            required |-> TRUE, status |-> "pending",
                            priority |-> 2] >>
        /\ (HasReq(reqs, "payslip_verification")
            \/ HasReq(reqs, "financial_reports"))
              => state.web_references.present

C9_Witness ==
    /\ state.verification_plan.present
    /\ ~state.web_references.present
    /\ pc = "web_references_node"

ReqShape(reqs) ==
    [i \in 1..Len(reqs) |->
        <<reqs[i].verification_type, reqs[i].required, reqs[i].priority>>]

\* C10: a second plan revision on unchanged web data leaves the requirements
\* map with the same keys, without duplicates, and the same required flag and
\* priority for every entry.
C10_RevisionIdempotent ==
    [][(pc \in {"analyzed", "checked"} /\ pc' = "reanalyzed") =>
          LET before == state.verification_plan.verification_requirements
              after == state'.verification_plan.verification_requirements
          IN  /\ ReqShape(after) = ReqShape(before)
              /\ Cardinality(ReqKeys(after)) = Len(after)]_vars

C10_Witness ==
    /\ pc = "reanalyzed"
    /\ state.web_references.present
    /\ HasReq(state.verification_plan.verification_requirements,
              "payslip_verification")
    /\ HasReq(state.verification_plan.verification_requirements,
              "financial_reports")


\* The positions of the plan's entries with status pending
PendingEntries(reqs) == {i \in 1..Len(reqs) : reqs[i].status = "pending"}

RequiredPendingEntries(reqs) ==
    {i \in PendingEntries(reqs) : reqs[i].required}

\* step is the type of an entry of `among` with the smallest priority
\* number, or "summarization" when `among` is empty
ChoosesLowest(reqs, among, step) ==
    IF among = {} THEN step = "summarization"
    ELSE \E i \in among :
            /\ step = reqs[i].verification_type
            /\ \A j \in among : reqs[i].priority <= reqs[j].priority

\* C11 (as stated): the completion check chooses the type of the pending
\* requirement with the smallest priority number, and "summarization" exactly
\* when no requirement of the plan has status pending.
C11_LowestPendingOrSummarization ==
    (pc = "completion_checked" /\ IdResolved(state)) =>
        LET reqs == state.verification_plan.verification_requirements
        IN  ChoosesLowest(reqs, PendingEntries(reqs), state.next_verification)

\* C11 (amended): the completion check chooses the type of the required
\* requirement with status pending that has the smallest priority number,
\* whatever the insertion order, and "summarization" exactly when no required
\* requirement is pending (an optional pending entry does not count),
\* including when the requirements map is empty.
C11_LowestRequiredPending ==
    (pc = "completion_checked" /\ IdResolved(state)) =>
        LET reqs == state.verification_plan.verification_requirements
        IN  ChoosesLowest(reqs, RequiredPendingEntries(reqs),
                          state.next_verification)

C11_Witness ==
    /\ pc = "completion_checked"
    /\ IdResolved(state)
    /\ LET reqs == state.verification_plan.verification_requirements
       IN  /\ \E i, j \in RequiredPendingEntries(reqs) :
                 i < j /\ reqs[j].priority < reqs[i].priority
           /\ state.next_verification = "web_references"


\* The risk assessment computed after summarization from the record s
AssessedAfterSummary(s) ==
    perform_risk_assessment(summarization_agent(s)).risk_assessment

NoRejection(s) == \A k \in ApprovalKeys : s.human_approvals[k] # "rejected"

CleanResult == [present |-> TRUE, verified |-> TRUE, issues_found |-> FALSE, warnings |-> <<>>]

\* C12: when the plan does not require payslip verification, the score
\* computed after summarization is the score of the same record with a
\* verified payslip (a missing or unverified payslip contributes 0 points);
\* with identity verified, web references failed, payslip not required and
\* no rejection the score is 15 and the level Medium-Low.
C12_UnrequiredPayslipScoresNothing ==
    LET reqs == state.verification_plan.verification_requirements
        ra == state.risk_assessment
    IN  (/\ pc = "assessed"
         /\ \/ ~HasReq(reqs, "payslip_verification")
            \/ ~GetReq(reqs, "payslip_verification").required)
        => /\ ra.risk_score =
                 AssessedAfterSummary(
                     [state EXCEPT !.payslip_verification = CleanResult]
                 ).risk_score
           /\ (/\ state.id_verification.present
               /\ state.id_verification.verified
               /\ state.web_references.present
               /\ ~state.web_references.verified
               /\ \/ ~state.verification_plan.financial_reports_required
                  \/ Verified(state, "financial_reports")
               /\ NoRejection(state))
              => (ra.risk_score = 15 /\ ra.risk_level = "Medium-Low")

\* C13: when the plan's financial_reports requirement is supplementary
\* (required=false), a missing or unverified financial-reports result adds 0
\* points; the financial-reports factor is scored only when the requirement
\* has required=true.
C13_SupplementaryFinancialScoresNothing ==
    LET reqs == state.verification_plan.verification_requirements
        ra == state.risk_assessment
    IN  pc = "assessed" =>
        /\ (HasReq(reqs, "financial_reports")
            /\ ~GetReq(reqs, "financial_reports").required)
           => ra.risk_score =
                 AssessedAfterSummary(
                     [state EXCEPT !.financial_reports = CleanResult]
                 ).risk_score
        /\ ("Required financial reports verification failed or missing"
               \in Range(ra.risk_factors))
           => (HasReq(reqs, "financial_reports")
               /\ GetReq(reqs, "financial_reports").required)

\* C14: a failure penalised by a base rule is not counted again as a risk
\* indicator: an unverified identity costs exactly 30 points in total and a
\* required unverified payslip exactly 25, and the summarizer's indicator for
\* the same failure is not among the factors.
C14_FailureCountedOnce ==
    LET ra == state.risk_assessment
        factors == Range(ra.risk_factors)
    IN  pc = "assessed" =>
        /\ ~(state.id_verification.present /\ state.id_verification.verified)
           => /\ ra.risk_score =
                   AssessedAfterSummary(
                       [state EXCEPT !.id_verification = CleanResult]
                   ).risk_score + 30
              /\ "ID verification failed or incomplete" \notin factors
        /\ (state.verification_plan.payslip_verification_required
            /\ ~Verified(state, "payslip_verification"))
           => /\ ra.risk_score =
                   AssessedAfterSummary(
                       [state EXCEPT !.payslip_verification = CleanResult]
                   ).risk_score + 25
              /\ "Payslip verification failed or incomplete" \notin factors

RECURSIVE Without(_, _)
Without(q, x) ==
    IF q = <<>> THEN <<>>
    ELSE IF Head(q) = x THEN Without(Tail(q), x)
    ELSE <<Head(q)>> \o Without(Tail(q), x)

\* C15: a record with one more reviewer rejection than another, otherwise
\* equal, scores exactly 15 more, and its factors are the other's factors
\* plus the factor of that rejection.
C15_RejectionAddsFifteen ==
    pc \in {"assessed", "assessed_direct"} =>
        \A k \in ApprovalKeys :
            state.human_approvals[k] = "rejected" =>
                LET ra == state.risk_assessment
                    other == perform_risk_assessment(
                                 [state EXCEPT !.human_approvals[k] = "none"]
                             ).risk_assessment
                    factor == rejection_factor(k)
                IN  /\ ra.risk_score = other.risk_score + 15
                    /\ Len(ra.risk_factors) = Len(other.risk_factors) + 1
                    /\ factor \notin Range(other.risk_factors)
                    /\ Without(ra.risk_factors, factor) = other.risk_factors

C15_Witness ==
    /\ pc = "assessed"
    /\ state.human_approvals["payslip_verification_review"] = "rejected"
    /\ state.human_approvals["data_readiness_override"] = "rejected"
    /\ state.risk_assessment.risk_score = 30

\* C16: the level of a computed score s is Low iff s = 0, Medium-Low iff
\* 1 <= s <= 29, Medium iff 30 <= s <= 49, Medium-High iff 50 <= s <= 69 and
\* High iff s >= 70.
C16_LevelBands ==
    state.risk_assessment.present =>
        LET s == state.risk_assessment.risk_score
            level == state.risk_assessment.risk_level
        IN  /\ level = "Low" <=> s = 0
            /\ level = "Medium-Low" <=> (1 <= s /\ s <= 29)
            /\ level = "Medium" <=> (30 <= s /\ s <= 49)
            /\ level = "Medium-High" <=> (50 <= s /\ s <= 69)
            /\ level = "High" <=> s >= 70

C16_Witness ==
    /\ pc = "assessed"
    /\ state.risk_assessment.risk_score = 50
    /\ state.risk_assessment.risk_level = "Medium-High"

\* C17 (as stated): a computed risk score lies in 0..100.
C17_ScoreWithinHundred ==
    state.risk_assessment.present =>
        state.risk_assessment.risk_score \in 0..100

\* C17 (amended): a computed risk score is a non-negative integer; no upper
\* limit is applied to it.
C17_ScoreUncapped ==
    state.risk_assessment.present =>
        state.risk_assessment.risk_score \in Nat

C17_Witness ==
    /\ pc = "assessed"
    /\ NoRejection(state)
    /\ state.risk_assessment.risk_score > 100

\* C20: a risk assessment computed while a queued review has no matching
\* reviewer decision scores higher than the assessment of the same record
\* without that review, and has a factor the other does not have.
C20_OpenReviewRaisesScore ==
    pc = "assessed" =>
        \A item \in state.pending_reviews :
            state.human_approvals[item.verification_type] = "none" =>
                LET other == AssessedAfterSummary(
                                 [state EXCEPT !.pending_reviews = @ \ {item}])
                IN  /\ state.risk_assessment.risk_score > other.risk_score
                    /\ Range(state.risk_assessment.risk_factors)
                          # Range(other.risk_factors)


\* The plan entry a queued review belongs to
ReviewedCheck(item) ==
    CASE item.verification_type = "payslip_verification_review" ->
            "payslip_verification"
      [] OTHER -> item.verification_type

\* A pending review is mandatory when it is tied to the identity check or to
\* a required=true plan entry
MandatoryReview(s, item) ==
    LET reqs == s.verification_plan.verification_requirements
    IN  \/ item.verification_type = "id_verification"
        \/ /\ HasReq(reqs, ReviewedCheck(item))
           /\ GetReq(reqs, ReviewedCheck(item)).required

\* The router's summarization case: identity result present and verified or
\* approved, no response to merge, no next_agent, next step summarization
SummarizationIsNext(s) ==
    /\ s.review_responses = {}
    /\ IdResolved(s)
    /\ s.next_agent = Absent
    /\ s.next_verification = "summarization"

\* C18: when the next planned step is summarization the router returns the
\* advisory step only if a pending review is tied to a required=true plan
\* entry and no data-readiness override is approved; pending reviews for
\* checks the plan does not require leave the route at summarization.
C18_OnlyMandatoryReviewsBlock ==
    (pc = "routed" /\ SummarizationIsNext(state)) =>
        /\ routed = "human_advisory_node" =>
              /\ \E item \in state.pending_reviews :
                    MandatoryReview(state, item)
              /\ ~Approved(state, "data_readiness_override")
        /\ (\A item \in state.pending_reviews : ~MandatoryReview(state, item))
              => routed = "summarization_node"

\* The reviewer's decision for the item's type is on record
Answered(s, item) == s.human_approvals[item.verification_type] # "none"

\* C19: when every pending review item already has a reviewer decision on
\* record for its type, the routing functions return what they return for the
\* same record without those items; in particular summarization is not held
\* back.
C19_AnsweredReviewsAreResolved ==
    (/\ state.pending_reviews # {}
     /\ \A item \in state.pending_reviews : Answered(state, item)) =>
        LET drained == [state EXCEPT !.pending_reviews = {}]
        IN  /\ pc = "routed" =>
                  routed = route_after_risk_assessment(drained)
            /\ pc = "review_checked" =>
                  routed = verification_needs_human_review(drained)

\* The result a check node writes
ResultPresent(s, node) ==
    CASE node = "id_verification_node" -> s.id_verification.present
      [] node = "payslip_verification_node" -> s.payslip_verification.present
      [] node = "web_references_node" -> s.web_references.present
      [] node = "financial_reports_node" -> s.financial_reports.present
      [] OTHER -> FALSE

\* C22: a check node's step never aborts the run, whether or not the agent
\* raised: after the step the node's result is on record and the run is at
\* the node its edge leads to (the review step or the planner).
C22_RaiseIsRecorded ==
    [][(pc \in AgentNodes) =>
          (/\ ResultPresent(state', pc)
           /\ pc' \in {"human_advisory_node", "risk_assessment_node"})]_vars

\* C23: whenever the run is about to execute a check node, that check's
\* result is not on record yet, so each check runs and writes at most once.
C23_ChecksRunOnce ==
    pc \in AgentNodes => ~ResultPresent(state, pc)

\* C30: when the reviewer answers yes at the blocking identity review, the
\* identity approval is recorded as approved with issues_at_review equal to
\* the list of issues of the identity result under review (the empty list
\* when the result has none), the identity result and the other approvals
\* are left as they were, and the next node is the risk-assessment node.
C30_ApprovalRecordsIssues ==
    [][(pc = "input" /\ get_approval' = "yes")
          => (/\ "id_verification" \in DOMAIN state'.human_approvals
              /\ state'.human_approvals["id_verification"].approved = TRUE
              /\ state'.human_approvals["id_verification"].issues_at_review
                    = (IF "issues_found" \in DOMAIN state.id_verification
                       THEN state.id_verification.issues_found
                       ELSE <<>>)
              /\ state'.id_verification = state.id_verification
              /\ \A k \in DOMAIN state.human_approvals \ {"id_verification"} :
                    /\ k \in DOMAIN state'.human_approvals
                    /\ state'.human_approvals[k] = state.human_approvals[k]
              /\ pc' = "risk_assessment_node")]_vars

C30_Witness ==
    /\ pc = "risk_assessment_node"
    /\ get_approval = "yes"
    /\ "issues_found" \in DOMAIN state.id_verification
    /\ state.id_verification.issues_found
          = <<"ID document has expired", "No expiry date found">>
    /\ state.human_approvals["id_verification"].approved
    /\ state.human_approvals["id_verification"].issues_at_review
          = <<"ID document has expired", "No expiry date found">>

\* C21: while review responses are on record and no advisory pass has run,
\* the planner's edge leads to the advisory node; once the advisory pass has
\* run and handed the run back, the edge leads where it leads without those
\* responses.
C21_ResponsesMergedOnce ==
    [][(pc = "risk_assessment_node" /\ ~state'.risk_assessment.present) =>
          (/\ (state.review_responses # {} /\ get_approval = "")
                 => pc' = "human_advisory_node"
           /\ get_approval = "yes"
                 => pc' = after_risk_assessment(
                              [state' EXCEPT !.review_responses = {}]))]_vars

\* C24: once the risk assessment is on record the summary is on record too,
\* the only nodes left to run are the report and the end of the run (so
\* neither the summarization nor the assessment runs again), and no step
\* changes the recorded assessment.
C24_AssessedOnceAfterSummary ==
    /\ [](state.risk_assessment.present =>
            (/\ state.verification_summary.present
             /\ pc \in {"report_generation_node", "__end__"}))
    /\ [][state.risk_assessment.present =>
             state'.risk_assessment = state.risk_assessment]_vars

C24_Witness ==
    /\ state.risk_assessment.present
    /\ state.verification_summary.present
    /\ pc = "__end__"

\* C26: applying a routing function (route_after_risk_assessment,
\* verification_needs_human_review, route_after_summarization) to a record
\* leaves every field of the record as it was.
C26_RoutersLeaveStateUnchanged ==
    [][(pc = "route") => state' = state]_vars

\* An approval detail with its issues as a plain list
DetailContents(detail) == [detail EXCEPT !.issues_at_review = @.items]

\* C25: recording a review response is an upsert by type: after the update
\* is merged, human_approvals holds for the reviewed type exactly the detail
\* of that response, the entries of the other types are as before, and
\* merging the same update once more leaves human_approvals as it is.
C25_ResponseIsUpsert ==
    [][(/\ pc = "review"
        /\ Len(state'.review_responses) > Len(state.review_responses)) =>
          LET reviewed == DOMAIN routed'.human_approvals
              before == state.human_approvals
              after == state'.human_approvals
          IN  /\ DOMAIN after = DOMAIN before \cup reviewed
              /\ \A k \in reviewed :
                    DetailContents(after[k])
                        = DetailContents(routed'.human_approvals[k])
              /\ \A k \in DOMAIN before \ reviewed : after[k] = before[k]
              /\ \A k \in DOMAIN after :
                    DetailContents(
                        apply_state_update(state', routed').human_approvals[k])
                        = DetailContents(after[k])
    ]_vars

\* C27: each of the steps plan creation, plan revision, summarization, risk
\* assessment and recording the identity approval leaves the audit log
\* longer than it found it, with the entries it found still at the front in
\* the same order.
C27_StepsAppendToAuditLog ==
    [][(pc' # pc /\ pc' \in AuditedSteps) =>
          (/\ Len(state'.audit_log) > Len(state.audit_log)
           /\ SubSeq(state'.audit_log, 1, Len(state.audit_log))
                 = state.audit_log)]_vars

\* The only entry text in the code that records a rejection of the identity
RecordsRejection(entry) == entry.action = "Human rejected ID verification"

\* C28: when the reviewer has rejected the identity, the audit log of the
\* final record holds an entry recording the rejection and no entry for
\* summarization or risk assessment.
C28_RejectionIsLogged ==
    pc = "rejected" =>
        /\ \E i \in 1..Len(state.audit_log) :
              RecordsRejection(state.audit_log[i])
        /\ \A i \in 1..Len(state.audit_log) :
              /\ state.audit_log[i].agent # "Summarization_Agent"
              /\ state.audit_log[i].action # "Risk assessment completed"

\* C29: with several client runs interleaved, a run that is resumed is
\* resumed on the workflow its own run_workflow call created and finds its
\* own checkpoint there, and the output saved for a run that completed is
\* still that run's result.
C29_RunsShareNothing ==
    \A client \in Clients :
        /\ pc[client] = "resumed" =>
              /\ state.resumed_on[client] = state.invoked_on[client]
              /\ thread_id_of(client) \in
                    state.checkpoints[state.invoked_on[client]]
        /\ state.saved_to[client] # "" =>
              state.files[state.saved_to[client]] = client

\* C31: the step after summarization_node is risk_assessment_node; that step,
\* taken with the summary on record, computes risk_assessment (absent before,
\* present after) and hands over to report_generation_node; the step after
\* report_generation_node ends the run, and an ended run takes no step.
C31_SummaryThenAssessmentThenReport ==
    [][/\ (pc = "summarization_node") =>
            (/\ pc' = "risk_assessment_node"
             /\ state'.verification_summary.present
             /\ ~state'.risk_assessment.present)
       /\ (pc = "risk_assessment_node" /\ state.verification_summary.present) =>
            (/\ ~state.risk_assessment.present
             /\ state'.risk_assessment.present
             /\ pc' = "report_generation_node")
       /\ (pc = "report_generation_node") => pc' = "__end__"
       /\ pc # "__end__"]_vars

C31_Witness ==
    /\ pc = "report_generation_node"
    /\ state.verification_summary.present
    /\ state.risk_assessment.present
    /\ state.risk_assessment_action = "perform_assessment"

\* C32: every item of pending_reviews carries a non-empty issues list, and a
\* step that queues a payslip review does so for a payslip result that has
\* issues.
C32_QueuedReviewsHaveIssues ==
    /\ [](\A item \in state.pending_reviews : item.issues)
    /\ [][\A item \in state'.pending_reviews \ state.pending_reviews :
             /\ item.issues
             /\ (item.verification_type = "payslip_verification_review") =>
                   (/\ state'.payslip_verification.present
                    /\ state'.payslip_verification.issues_found)]_vars

C32_Witness ==
    /\ pc = "__end__"
    /\ ReviewItem("payslip_verification_review", TRUE) \in state.pending_reviews
    /\ ReviewItem("data_readiness_override", TRUE) \in state.pending_reviews

\* C33: the second run of the Summarizer on the record the first run returned
\* produces the first summary again, the same summary it produces with no
\* summary stored in the record; and each summary's web_presence lists the
\* first three mentions of the web result (all of them when there are fewer)
\* in their order.
C33_SummarizerIdempotent ==
    [][(pc \in {"summarize", "summarized_once"}) =>
          LET summary == state'.verification_summary
              mentions == state.web_references.mentions
              top == summary.web_presence.top_mentions
          IN  /\ summary.present
              /\ (pc = "summarized_once") =>
                    (/\ summary = routed
                     /\ summary = state.verification_summary
                     /\ summary =
                          summarization_agent(
                              [state EXCEPT
                                  !.verification_summary = NoSummary]
                          ).verification_summary)
              /\ Len(top) = (IF Len(mentions) <= 3 THEN Len(mentions) ELSE 3)
              /\ \A i \in 1..Len(top) :
                    top[i] = processed_mention(mentions[i])
              /\ state'.web_references = state.web_references]_vars

C33_Witness ==
    /\ pc = "summarized_twice"
    /\ Len(state.web_references.mentions) > 3
    /\ state.web_references.mentions[1] # state.web_references.mentions[2]
    /\ Len(state.verification_summary.web_presence.top_mentions) = 3
    /\ state.verification_summary.risk_indicators # <<>>

\* The four check results are there and verified, the web result carries no
\* risk flag and no human_approvals entry is a rejection
AllCleanNoRejection(s) ==
    /\ s.id_verification.present /\ s.id_verification.verified
    /\ Verified(s, "payslip_verification")
    /\ Verified(s, "web_references")
    /\ Verified(s, "financial_reports")
    /\ s.web_references.risk_flags = <<>>
    /\ s.id_verification.warnings = <<>>
    /\ s.payslip_verification.warnings = <<>>
    /\ \A k \in ApprovalKeys : s.human_approvals[k] # "rejected"

\* C34: a risk assessment computed (after summarization or without a
\* summary) from a record whose four checks are verified, with no rejection,
\* no risk flag and no warning, has score 0, level Low and no risk factor.
C34_CleanRecordScoresZero ==
    (pc \in {"assessed", "assessed_direct"} /\ AllCleanNoRejection(state)) =>
        /\ state.risk_assessment.present
        /\ state.risk_assessment.risk_score = 0
        /\ state.risk_assessment.risk_level = "Low"
        /\ state.risk_assessment.risk_factors = <<>>

C34_Witness ==
    /\ pc = "assessed"
    /\ AllCleanNoRejection(state)
    /\ state.verification_plan.payslip_verification_required
    /\ state.verification_plan.financial_reports_required
    /\ Approved(state, "payslip_verification_review")
    /\ state.risk_assessment.risk_level = "Low"

\* C35: a create(name) for a name whose current registration is a singleton
\* returns the instance the previous create(name) under that registration
\* returned; for a name whose current registration is not a singleton it
\* returns an instance built by this call; for a name that is not registered
\* it raises ValueError; and after unregister(name) or clear() the name is
\* not listed.
C35_SingletonUntilUnregistered ==
    [][/\ (pc' = "create") =>
            LET name == routed'.name
            IN  /\ (/\ state.registered_as[name] = "singleton"
                     /\ state.returned[name] # None) =>
                       routed'.result = state.returned[name]
                /\ (state.registered_as[name] = "plain") =>
                       (/\ ~routed'.raised
                        /\ routed'.result = state.created + 1)
                /\ (state.registered_as[name] = "unset") => routed'.raised
       /\ (pc' = "unregister") => routed'.name \notin list_agents(state')
       /\ (pc' = "clear") => list_agents(state') = {}]_vars

\* C36: a record that holds a verification plan holds an identity result
\* that is verified or approved by the reviewer; and while the identity
\* result is absent or unresolved the planner does not choose planning, and
\* create_verification_plan applied to the record writes no plan.
C36_PlanOnlyAfterIdentity ==
    /\ state.verification_plan.present => IdResolved(state)
    /\ (~IdResolved(state) /\ pc = "risk_assessment_node") =>
          /\ determine_next_action(state) # "planning"
          /\ ~create_verification_plan(state).verification_plan.present
          /\ ~risk_assessment_agent(state).verification_plan.present

C36_Witness ==
    /\ state.verification_plan.present
    /\ state.id_verification.present
    /\ ~state.id_verification.verified
    /\ Approved(state, "id_verification")
    /\ get_approval = "yes"
    /\ pc = "web_references_node"

\* The graph node that runs the check of a plan requirement
CheckNode(k) ==
    CASE k = "web_references" -> "web_references_node"
      [] k = "payslip_verification" -> "payslip_verification_node"
      [] k = "financial_reports" -> "financial_reports_node"
      [] OTHER -> Absent

\* C37: a step of the planner (risk_assessment_node) does not hand over to
\* the node of a required check whose result is present and verified while
\* the plan requirement of that check still reads pending.
C37_VerifiedCheckNotChosenAgain ==
    [][(pc = "risk_assessment_node") =>
          LET reqs == state'.verification_plan.verification_requirements
          IN  \A k \in ReqKeys(reqs) :
                 (/\ GetReq(reqs, k).required
                  /\ GetReq(reqs, k).status = "pending"
                  /\ Verified(state', k)) => pc' # CheckNode(k)]_vars

\* C38: after result = apply_state_update(base_state, update), base_state
\* holds what it held before the call; in the result a list of the update
\* follows the items base_state had, next_verification and next_agent are
\* the update's, and with an empty update the result is base_state.
C38_BaseStateNotModified ==
    [][(pc = "merge") =>
          LET before == state.base_state
              update == routed'
              result == state'.result
          IN  /\ state'.base_state = before
              /\ \A key \in DOMAIN update \cap ListKeys :
                    result[key] = before[key] \o update[key]
              /\ \A key \in DOMAIN update \cap replace_keys :
                    result[key] = update[key]
              /\ (DOMAIN update = {}) => result = before]_vars

=============================================================================
